---------------------------- MODULE Spec2Model ----------------------------
(***************************************************************************)
(* State-machine model of the referral network core: ReferralGraph         *)
(* (graph/ReferralGraph.ts).  Identifiers are strings, modelled as         *)
(* sequences of one-character strings so that emptiness and trim() can be  *)
(* computed.  A JavaScript Map / Set is modelled by its keys in insertion  *)
(* order (a duplicate-free sequence) plus, for a Map, a function from the  *)
(* keys to the values.                                                     *)
(***************************************************************************)
EXTENDS Integers, Sequences, FiniteSets, TLC

(* ------------------------------ bounds --------------------------------- *)

\* Number of distinct well-formed identifiers the callers draw from.
NumIds == 3

(* --------------------------- identifiers ------------------------------- *)

Letters == <<"a", "b", "c", "d", "e", "f", "g", "h", "i", "j", "k", "l", "m", "n">>

\* Well-formed identifiers: "a", "b", "c", ...
ValidIds == { <<Letters[i]>> : i \in 1..NumIds }

\* The empty string and an all-whitespace string.
EmptyId == << >>
BlankId == <<" ", " ">>

\* Every identifier a caller may pass.
Ids == ValidIds \cup {EmptyId, BlankId}

\* The value of an optional field that has not been assigned.  It is a
\* one-element sequence whose element is not a character, so it differs
\* from every identifier.
Undefined == <<"undefined">>

\* JavaScript truthiness of a string: only "" is falsy.
Truthy(s) == s # << >>

\* String.prototype.trim(): drop leading and trailing whitespace.
RECURSIVE TrimStart(_)
TrimStart(s) ==
    IF s # << >> /\ Head(s) = " " THEN TrimStart(Tail(s)) ELSE s

RECURSIVE TrimEnd(_)
TrimEnd(s) ==
    IF s # << >> /\ s[Len(s)] = " " THEN TrimEnd(SubSeq(s, 1, Len(s) - 1)) ELSE s

trim(s) == TrimEnd(TrimStart(s))

(* -------------------------- Set / Map helpers -------------------------- *)

\* The members of an insertion-ordered collection.
Range(seq) == { seq[i] : i \in 1..Len(seq) }

\* Set.prototype.add: append unless already a member.
SetAdd(seq, x) == IF x \in Range(seq) THEN seq ELSE Append(seq, x)

\* Map.prototype.set on a function: add or overwrite one key.
MapSet(f, k, v) == [x \in (DOMAIN f) \cup {k} |-> IF x = k THEN v ELSE f[x]]

(* ------------------------------- errors -------------------------------- *)

INVALID_USER_ID    == "Invalid user ID format"
SELF_REFERRAL      == "Users cannot refer themselves"
DUPLICATE_REFERRER == "Candidate already has a referrer"
CYCLE_DETECTED     == "Referral would create a cycle"
USER_NOT_FOUND     == "User does not exist"
CAPACITY_EXCEEDED  == "User has exceeded referral capacity"

\* Outcome of a call: a returned boolean or a thrown ReferralNetworkError.
Returned(b) == [status |-> "return", value |-> b, error |-> "none"]
Thrown(e)   == [status |-> "throw", value |-> FALSE, error |-> e]

(* -------------------------------- state -------------------------------- *)

VARIABLES
    users,                 \* ReferralGraph.users: id -> User record
    userKeys,              \* key order of ReferralGraph.users
    adjacencyList,         \* id -> direct referrals, in insertion order
    reverseAdjacencyList,  \* id -> referrers, in insertion order
    lastOp,                \* the operation called most recently
    lastResult,            \* what that call returned or threw
    totalReachCache,       \* NetworkCacheImpl.totalReachCache: id -> number
    shortestPathCache,     \* NetworkCacheImpl.shortestPathCache: id -> (id -> distance)
    reachSetsCache,        \* NetworkCacheImpl.reachSetsCache: id -> set of ids
    callArgs,              \* the simulator or optimizer call of the client
    otherCache             \* the NetworkCacheImpl of a second NetworkAnalyzer

graphVars == <<users, userKeys, adjacencyList, reverseAdjacencyList>>
cacheVars == <<totalReachCache, shortestPathCache, reachSetsCache>>
vars == <<users, userKeys, adjacencyList, reverseAdjacencyList, lastOp, lastResult,
          totalReachCache, shortestPathCache, reachSetsCache, callArgs,
          otherCache>>

\* new NetworkCacheImpl(): three empty maps, here as one record.
EmptyCache ==
    [totalReachCache |-> << >>, shortestPathCache |-> << >>, reachSetsCache |-> << >>]

\* new ReferralGraph(): three empty maps; new NetworkAnalyzer(graph): a
\* NetworkCacheImpl with three empty maps; new NetworkSimulator() and new
\* BonusOptimizer(simulator) hold no data, and no call has been made.  A
\* second NetworkAnalyzer over the same graph holds a NetworkCacheImpl of
\* its own.
Init ==
    /\ users = << >>
    /\ userKeys = << >>
    /\ adjacencyList = << >>
    /\ reverseAdjacencyList = << >>
    /\ lastOp = "constructor"
    /\ lastResult = Returned(TRUE)
    /\ totalReachCache = << >>
    /\ shortestPathCache = << >>
    /\ reachSetsCache = << >>
    /\ callArgs = << >>
    /\ otherCache = EmptyCache

\* this.users.has(id)
hasUser(userId) == userId \in DOMAIN users

\* getReferrer: user?.referrerId
getReferrer(userId) ==
    IF userId \in DOMAIN users THEN users[userId].referrerId ELSE Undefined

\* getDirectReferrals: Array.from(adjacencyList.get(id)), [] for unknown ids
getDirectReferrals(userId) ==
    IF ~hasUser(userId) THEN << >>
    ELSE IF userId \in DOMAIN adjacencyList THEN adjacencyList[userId] ELSE << >>

\* getAllUsers: Array.from(this.users.keys())
getAllUsers == userKeys

(* ------------------------- validateAcyclicity -------------------------- *)

\* Faulty variant of the for-loop: leaves the loop after the first direct
\* referral.
PushUnvisited_firstOnly(stack, directReferrals, visited) ==
    IF directReferrals = << >> THEN stack
    ELSE IF Head(directReferrals) \notin visited
        THEN Append(stack, Head(directReferrals)) ELSE stack

\* The for-loop of validateAcyclicity: push every not yet visited direct
\* referral, in iteration order.
RECURSIVE PushUnvisited(_, _, _)
PushUnvisited(stack, directReferrals, visited) ==
    IF directReferrals = << >> THEN stack
    ELSE PushUnvisited(
            IF Head(directReferrals) \notin visited
                THEN Append(stack, Head(directReferrals)) ELSE stack,
            Tail(directReferrals), visited)

\* The while-loop of validateAcyclicity: depth-first search with an explicit
\* stack; FALSE as soon as referrerId is popped.
RECURSIVE DfsLoop(_, _, _)
DfsLoop(referrerId, visited, stack) ==
    IF Len(stack) = 0 THEN TRUE
    ELSE LET currentUserId == stack[Len(stack)]
             popped == SubSeq(stack, 1, Len(stack) - 1)
         IN  IF currentUserId \in visited
                THEN DfsLoop(referrerId, visited, popped)
             ELSE IF currentUserId = referrerId
                THEN FALSE
             ELSE LET visited2 == visited \cup {currentUserId}
                      directReferrals ==
                          IF currentUserId \in DOMAIN adjacencyList
                            THEN adjacencyList[currentUserId] ELSE << >>
                  IN  DfsLoop(referrerId, visited2,
                              PushUnvisited(popped, directReferrals, visited2))

\* Faulty variant of validateAcyclicity: looks only one edge deep.
validateAcyclicity_directOnly(referrerId, candidateId) ==
    IF ~hasUser(referrerId) \/ ~hasUser(candidateId) THEN FALSE
    ELSE /\ referrerId # candidateId
         /\ referrerId \notin Range(adjacencyList[candidateId])

validateAcyclicity(referrerId, candidateId) ==
    IF ~hasUser(referrerId) \/ ~hasUser(candidateId) THEN FALSE
    ELSE DfsLoop(referrerId, {}, <<candidateId>>)

(* ------------------------------ operations ----------------------------- *)

\* The User object created by addUser.
NewUser(userId) ==
    [id |-> userId, referrerId |-> Undefined, directReferrals |-> << >>,
     isActive |-> TRUE, referralCapacity |-> 10, referralsMade |-> 0]

\* Faulty variant of addUser: no check for an existing user, the entry is
\* overwritten.
addUser_overwrite(userId) ==
    /\ lastOp' = "addUser"
    /\ UNCHANGED <<callArgs, otherCache>>
    /\ UNCHANGED cacheVars
    /\ IF ~Truthy(userId) \/ trim(userId) = << >>
         THEN /\ lastResult' = Thrown(INVALID_USER_ID)
              /\ UNCHANGED graphVars
       ELSE /\ users' = MapSet(users, userId, NewUser(userId))
            /\ userKeys' = SetAdd(userKeys, userId)
            /\ adjacencyList' = MapSet(adjacencyList, userId, << >>)
            /\ reverseAdjacencyList' = MapSet(reverseAdjacencyList, userId, << >>)
            /\ lastResult' = Returned(TRUE)

addUser(userId) ==
    /\ lastOp' = "addUser"
    /\ UNCHANGED <<callArgs, otherCache>>
    /\ UNCHANGED cacheVars
    /\ IF ~Truthy(userId) \/ trim(userId) = << >>
         THEN /\ lastResult' = Thrown(INVALID_USER_ID)
              /\ UNCHANGED graphVars
       ELSE IF hasUser(userId)
         THEN /\ lastResult' = Returned(FALSE)
              /\ UNCHANGED graphVars
       ELSE /\ users' = MapSet(users, userId, NewUser(userId))
            /\ userKeys' = SetAdd(userKeys, userId)
            /\ adjacencyList' = MapSet(adjacencyList, userId, << >>)
            /\ reverseAdjacencyList' = MapSet(reverseAdjacencyList, userId, << >>)
            /\ lastResult' = Returned(TRUE)

\* Faulty variant of the guard clauses: the duplicate-referrer check is
\* missing.
addReferralCheck_noDuplicate(referrerId, candidateId) ==
    IF ~Truthy(referrerId) \/ ~Truthy(candidateId) THEN INVALID_USER_ID
    ELSE IF referrerId = candidateId THEN SELF_REFERRAL
    ELSE IF ~hasUser(referrerId) \/ ~hasUser(candidateId) THEN USER_NOT_FOUND
    ELSE IF ~validateAcyclicity(referrerId, candidateId) THEN CYCLE_DETECTED
    ELSE "none"

\* Faulty variant of the guard clauses: the arguments of the acyclicity
\* check are swapped.
addReferralCheck_swappedArgs(referrerId, candidateId) ==
    IF ~Truthy(referrerId) \/ ~Truthy(candidateId) THEN INVALID_USER_ID
    ELSE IF referrerId = candidateId THEN SELF_REFERRAL
    ELSE IF ~hasUser(referrerId) \/ ~hasUser(candidateId) THEN USER_NOT_FOUND
    ELSE IF users[candidateId].referrerId # Undefined THEN DUPLICATE_REFERRER
    ELSE IF ~validateAcyclicity(candidateId, referrerId) THEN CYCLE_DETECTED
    ELSE "none"

\* Faulty variant of the guard clauses: the acyclicity check runs before
\* the duplicate-referrer check.
addReferralCheck_cycleFirst(referrerId, candidateId) ==
    IF ~Truthy(referrerId) \/ ~Truthy(candidateId) THEN INVALID_USER_ID
    ELSE IF referrerId = candidateId THEN SELF_REFERRAL
    ELSE IF ~hasUser(referrerId) \/ ~hasUser(candidateId) THEN USER_NOT_FOUND
    ELSE IF ~validateAcyclicity(referrerId, candidateId) THEN CYCLE_DETECTED
    ELSE IF users[candidateId].referrerId # Undefined THEN DUPLICATE_REFERRER
    ELSE "none"

\* Faulty variant of the guard clauses: the existence check runs before the
\* self-referral check.
addReferralCheck_existenceFirst(referrerId, candidateId) ==
    IF ~Truthy(referrerId) \/ ~Truthy(candidateId) THEN INVALID_USER_ID
    ELSE IF ~hasUser(referrerId) \/ ~hasUser(candidateId) THEN USER_NOT_FOUND
    ELSE IF referrerId = candidateId THEN SELF_REFERRAL
    ELSE IF users[candidateId].referrerId # Undefined THEN DUPLICATE_REFERRER
    ELSE IF ~validateAcyclicity(referrerId, candidateId) THEN CYCLE_DETECTED
    ELSE "none"

\* Faulty variant of the guard clauses: a referrer who has made as many
\* referrals as referralCapacity allows is refused.
addReferralCheck_capacity(referrerId, candidateId) ==
    IF ~Truthy(referrerId) \/ ~Truthy(candidateId) THEN INVALID_USER_ID
    ELSE IF referrerId = candidateId THEN SELF_REFERRAL
    ELSE IF ~hasUser(referrerId) \/ ~hasUser(candidateId) THEN USER_NOT_FOUND
    ELSE IF users[candidateId].referrerId # Undefined THEN DUPLICATE_REFERRER
    ELSE IF ~validateAcyclicity(referrerId, candidateId) THEN CYCLE_DETECTED
    ELSE IF users[referrerId].referralsMade >= users[referrerId].referralCapacity
      THEN CAPACITY_EXCEEDED
    ELSE "none"

\* The guard clauses of addReferral, in program order: the error the call
\* throws, or "none" when every check passes.
addReferralCheck(referrerId, candidateId) ==
    IF ~Truthy(referrerId) \/ ~Truthy(candidateId) THEN INVALID_USER_ID
    ELSE IF referrerId = candidateId THEN SELF_REFERRAL
    ELSE IF ~hasUser(referrerId) \/ ~hasUser(candidateId) THEN USER_NOT_FOUND
    ELSE IF users[candidateId].referrerId # Undefined THEN DUPLICATE_REFERRER
    ELSE IF ~validateAcyclicity(referrerId, candidateId) THEN CYCLE_DETECTED
    ELSE "none"

\* What addReferral(referrerId, candidateId) throws or returns in the
\* current state.
addReferralResult(referrerId, candidateId) ==
    IF addReferralCheck(referrerId, candidateId) # "none"
        THEN Thrown(addReferralCheck(referrerId, candidateId))
        ELSE Returned(TRUE)

\* Faulty variant of the user-object update: referralsMade is not
\* incremented.
UsersAfterReferral_noCount(referrerId, candidateId) ==
    [users EXCEPT
        ![candidateId].referrerId = referrerId,
        ![referrerId].directReferrals = SetAdd(@, candidateId)]

\* "Update user objects": the users map after a successful addReferral.
UsersAfterReferral(referrerId, candidateId) ==
    [users EXCEPT
        ![candidateId].referrerId = referrerId,
        ![referrerId].directReferrals = SetAdd(@, candidateId),
        ![referrerId].referralsMade = @ + 1]

\* Faulty variant of addReferral: the candidate's referrer is assigned
\* before the acyclicity check, and stays assigned when the check throws.
addReferral_assignBeforeCheck(referrerId, candidateId) ==
    /\ lastOp' = "addReferral"
    /\ UNCHANGED <<callArgs, otherCache>>
    /\ UNCHANGED cacheVars
    /\ lastResult' = addReferralResult(referrerId, candidateId)
    /\ IF addReferralCheck(referrerId, candidateId) = CYCLE_DETECTED
         THEN /\ users' = [users EXCEPT ![candidateId].referrerId = referrerId]
              /\ UNCHANGED <<userKeys, adjacencyList, reverseAdjacencyList>>
       ELSE IF addReferralCheck(referrerId, candidateId) # "none"
         THEN UNCHANGED graphVars
         ELSE /\ users' = UsersAfterReferral(referrerId, candidateId)
              /\ adjacencyList' =
                    [adjacencyList EXCEPT ![referrerId] = SetAdd(@, candidateId)]
              /\ reverseAdjacencyList' =
                    [reverseAdjacencyList EXCEPT ![candidateId] = SetAdd(@, referrerId)]
              /\ UNCHANGED userKeys

addReferral(referrerId, candidateId) ==
    /\ lastOp' = "addReferral"
    /\ UNCHANGED <<callArgs, otherCache>>
    /\ UNCHANGED cacheVars
    /\ lastResult' = addReferralResult(referrerId, candidateId)
    /\ IF addReferralCheck(referrerId, candidateId) # "none"
         THEN UNCHANGED graphVars
         ELSE /\ users' = UsersAfterReferral(referrerId, candidateId)
              /\ adjacencyList' =
                    [adjacencyList EXCEPT ![referrerId] = SetAdd(@, candidateId)]
              /\ reverseAdjacencyList' =
                    [reverseAdjacencyList EXCEPT ![candidateId] = SetAdd(@, referrerId)]
              /\ UNCHANGED userKeys

\* Faulty variant of the predicate call: the edge is inserted tentatively
\* for the check and left in the adjacency list.
validateAcyclicityCall_tentativeEdge(referrerId, candidateId) ==
    /\ lastOp' = "validateAcyclicity"
    /\ UNCHANGED <<callArgs, otherCache>>
    /\ UNCHANGED cacheVars
    /\ lastResult' = Returned(validateAcyclicity(referrerId, candidateId))
    /\ adjacencyList' =
          IF validateAcyclicity(referrerId, candidateId)
            THEN [adjacencyList EXCEPT ![referrerId] = SetAdd(@, candidateId)]
            ELSE adjacencyList
    /\ UNCHANGED <<users, userKeys, reverseAdjacencyList>>

\* A call of the public predicate validateAcyclicity.
validateAcyclicityCall(referrerId, candidateId) ==
    /\ lastOp' = "validateAcyclicity"
    /\ UNCHANGED <<callArgs, otherCache>>
    /\ UNCHANGED cacheVars
    /\ lastResult' = Returned(validateAcyclicity(referrerId, candidateId))
    /\ UNCHANGED graphVars

(* --------------------------- NetworkAnalyzer --------------------------- *)

INVALID_PARAMETER == "Invalid parameter value"

\* The arguments k given to getTopReferrersByReach: the number
\* whole + (IF half THEN 1/2 ELSE 0), so that non-integers are among them.
MaxK == NumIds + 1
KInputs == { [whole |-> w, half |-> h] : w \in (-1)..MaxK, h \in BOOLEAN }

\* k <= 0
NonPositive(k) == k.whole < 0 \/ (k.whole = 0 /\ ~k.half)

\* Number.isInteger(k)
IsInteger(k) == ~k.half

\* Faulty variant of the traversal: only the direct referrals are counted.
TotalReachLoop_directOnly(userId, queue, visited, totalReach) ==
    Len(getDirectReferrals(userId))

\* The while-loop of calculateTotalReach: breadth-first traversal from
\* userId, counting every visited user but userId itself.
RECURSIVE TotalReachLoop(_, _, _, _)
TotalReachLoop(userId, queue, visited, totalReach) ==
    IF queue = << >> THEN totalReach
    ELSE LET currentUserId == Head(queue)
         IN  IF currentUserId \in visited
               THEN TotalReachLoop(userId, Tail(queue), visited, totalReach)
               ELSE TotalReachLoop(
                       userId,
                       PushUnvisited(Tail(queue), getDirectReferrals(currentUserId),
                                     visited \cup {currentUserId}),
                       visited \cup {currentUserId},
                       IF currentUserId # userId THEN totalReach + 1 ELSE totalReach)

\* Faulty variant of calculateTotalReach: the cache is written but never
\* read, every call traverses the current graph.
calculateTotalReach_noCacheRead(cache, userId) ==
    IF ~hasUser(userId)
      THEN [value |-> 0, cache |-> cache]
    ELSE LET totalReach == TotalReachLoop(userId, <<userId>>, {}, 0)
         IN  [value |-> totalReach, cache |-> MapSet(cache, userId, totalReach)]

\* Faulty variant of calculateTotalReach: an id that is not registered is
\* answered with -1.
calculateTotalReach_unknownNegative(cache, userId) ==
    IF userId \in DOMAIN cache
      THEN [value |-> cache[userId], cache |-> cache]
    ELSE IF ~hasUser(userId)
      THEN [value |-> -1, cache |-> cache]
    ELSE LET totalReach == TotalReachLoop(userId, <<userId>>, {}, 0)
         IN  [value |-> totalReach, cache |-> MapSet(cache, userId, totalReach)]

\* Faulty variant of calculateTotalReach: the answer 0 for an id that is not
\* registered is stored in the cache like a computed one.
calculateTotalReach_cachesUnknown(cache, userId) ==
    IF userId \in DOMAIN cache
      THEN [value |-> cache[userId], cache |-> cache]
    ELSE IF ~hasUser(userId)
      THEN [value |-> 0, cache |-> MapSet(cache, userId, 0)]
    ELSE LET totalReach == TotalReachLoop(userId, <<userId>>, {}, 0)
         IN  [value |-> totalReach, cache |-> MapSet(cache, userId, totalReach)]

\* calculateTotalReach(userId) on the total-reach cache `cache`: the value
\* returned and the cache the call leaves.
calculateTotalReach(cache, userId) ==
    IF userId \in DOMAIN cache
      THEN [value |-> cache[userId], cache |-> cache]
    ELSE IF ~hasUser(userId)
      THEN [value |-> 0, cache |-> cache]
    ELSE LET totalReach == TotalReachLoop(userId, <<userId>>, {}, 0)
         IN  [value |-> totalReach, cache |-> MapSet(cache, userId, totalReach)]

\* Faulty variant of the call: a queried id that is not registered is
\* registered on the way.
calculateTotalReachCall_registersUnknown(userId) ==
    /\ lastOp' = "calculateTotalReach"
    /\ UNCHANGED <<callArgs, otherCache>>
    /\ lastResult' = Returned(calculateTotalReach(totalReachCache, userId).value)
    /\ totalReachCache' = calculateTotalReach(totalReachCache, userId).cache
    /\ IF hasUser(userId) \/ ~Truthy(userId) \/ trim(userId) = << >>
         THEN UNCHANGED graphVars
         ELSE /\ users' = MapSet(users, userId, NewUser(userId))
              /\ userKeys' = SetAdd(userKeys, userId)
              /\ adjacencyList' = MapSet(adjacencyList, userId, << >>)
              /\ reverseAdjacencyList' = MapSet(reverseAdjacencyList, userId, << >>)
    /\ UNCHANGED <<shortestPathCache, reachSetsCache>>

\* A call of calculateTotalReach.
calculateTotalReachCall(userId) ==
    /\ lastOp' = "calculateTotalReach"
    /\ UNCHANGED <<callArgs, otherCache>>
    /\ lastResult' = Returned(calculateTotalReach(totalReachCache, userId).value)
    /\ totalReachCache' = calculateTotalReach(totalReachCache, userId).cache
    /\ UNCHANGED <<graphVars, shortestPathCache, reachSetsCache>>

\* Faulty variant of the for-loop: the reach of each user is computed but
\* not kept in the cache.
RECURSIVE RankUsers_noCacheWrite(_, _, _)
RankUsers_noCacheWrite(allUsers, cache, rankedUsers) ==
    IF allUsers = << >> THEN [rankedUsers |-> rankedUsers, cache |-> cache]
    ELSE LET r == calculateTotalReach(cache, Head(allUsers))
         IN  RankUsers_noCacheWrite(Tail(allUsers), cache,
                       IF r.value > 0
                         THEN Append(rankedUsers,
                                     [userId |-> Head(allUsers), score |-> r.value])
                         ELSE rankedUsers)

\* The for-loop of getTopReferrersByReach: calculateTotalReach for every
\* user, in getAllUsers order; users with a positive reach are pushed.
RECURSIVE RankUsers(_, _, _)
RankUsers(allUsers, cache, rankedUsers) ==
    IF allUsers = << >> THEN [rankedUsers |-> rankedUsers, cache |-> cache]
    ELSE LET r == calculateTotalReach(cache, Head(allUsers))
         IN  RankUsers(Tail(allUsers), r.cache,
                       IF r.value > 0
                         THEN Append(rankedUsers,
                                     [userId |-> Head(allUsers), score |-> r.value])
                         ELSE rankedUsers)

\* Faulty variant of the comparison: ascending score order.
RECURSIVE InsertByScore_ascending(_, _)
InsertByScore_ascending(sorted, e) ==
    IF sorted = << >> THEN <<e>>
    ELSE IF Head(sorted).score <= e.score
      THEN <<Head(sorted)>> \o InsertByScore_ascending(Tail(sorted), e)
      ELSE <<e>> \o sorted

\* Array.prototype.sort((a, b) => b.score - a.score): a stable sort into
\* descending score order, here by insertion.
RECURSIVE InsertByScore(_, _)
InsertByScore(sorted, e) ==
    IF sorted = << >> THEN <<e>>
    ELSE IF Head(sorted).score >= e.score
      THEN <<Head(sorted)>> \o InsertByScore(Tail(sorted), e)
      ELSE <<e>> \o sorted

RECURSIVE SortByScore(_)
SortByScore(list) ==
    IF list = << >> THEN << >>
    ELSE InsertByScore(SortByScore(SubSeq(list, 1, Len(list) - 1)), list[Len(list)])

\* Array.prototype.slice(0, n) for an integer n >= 0.
Slice(list, n) == SubSeq(list, 1, IF n < Len(list) THEN n ELSE Len(list))

\* Faulty variant of getTopReferrersByReach: k is validated after the
\* ranking loop has run.
getTopReferrersByReach_rankFirst(cache, k) ==
    LET ranked == RankUsers(getAllUsers, cache, << >>)
    IN  IF NonPositive(k) \/ ~IsInteger(k)
          THEN [result |-> Thrown(INVALID_PARAMETER), cache |-> ranked.cache]
          ELSE [result |-> Returned(Slice(SortByScore(ranked.rankedUsers), k.whole)),
                cache |-> ranked.cache]

\* getTopReferrersByReach(k) on the total-reach cache `cache`: the outcome
\* and the cache the call leaves.
getTopReferrersByReach(cache, k) ==
    IF NonPositive(k) \/ ~IsInteger(k)
      THEN [result |-> Thrown(INVALID_PARAMETER), cache |-> cache]
      ELSE LET ranked == RankUsers(getAllUsers, cache, << >>)
           IN  [result |-> Returned(Slice(SortByScore(ranked.rankedUsers), k.whole)),
                cache |-> ranked.cache]

\* A call of getTopReferrersByReach.
getTopReferrersByReachCall(k) ==
    /\ lastOp' = "getTopReferrersByReach"
    /\ UNCHANGED <<callArgs, otherCache>>
    /\ lastResult' = getTopReferrersByReach(totalReachCache, k).result
    /\ totalReachCache' = getTopReferrersByReach(totalReachCache, k).cache
    /\ UNCHANGED <<graphVars, shortestPathCache, reachSetsCache>>

(* ---------------------- unique reach expansion ------------------------ *)

\* bestUser before any user has been chosen
Null == <<"null">>

\* Set.prototype.delete on a set kept in insertion order
SetDelete(seq, x) == SelectSeq(seq, LAMBDA y : y # x)

\* The while-loop of computeDownstreamReachSet: breadth-first traversal
\* from userId collecting every visited user but userId itself.  The reach
\* set is only tested for membership and counted, never read in order.
RECURSIVE ReachSetLoop(_, _, _, _)
ReachSetLoop(userId, queue, visited, reachSet) ==
    IF queue = << >> THEN reachSet
    ELSE LET currentUserId == Head(queue)
         IN  IF currentUserId \in visited
               THEN ReachSetLoop(userId, Tail(queue), visited, reachSet)
               ELSE ReachSetLoop(
                       userId,
                       PushUnvisited(Tail(queue), getDirectReferrals(currentUserId),
                                     visited \cup {currentUserId}),
                       visited \cup {currentUserId},
                       IF currentUserId # userId
                         THEN reachSet \cup {currentUserId} ELSE reachSet)

computeDownstreamReachSet(userId) ==
    IF ~hasUser(userId) THEN {}
    ELSE ReachSetLoop(userId, <<userId>>, {}, {})

\* The for-loop of precomputeReachSets.
RECURSIVE FillReachSets(_, _)
FillReachSets(allUsers, cache) ==
    IF allUsers = << >> THEN cache
    ELSE FillReachSets(
            Tail(allUsers),
            IF Head(allUsers) \in DOMAIN cache THEN cache
            ELSE MapSet(cache, Head(allUsers), computeDownstreamReachSet(Head(allUsers))))

\* Faulty variant of precomputeReachSets: a cache that holds entries is
\* completed for the users it lacks instead of being returned as it is.
precomputeReachSets_fillMissing(cache) == FillReachSets(getAllUsers, cache)

\* Faulty variant of precomputeReachSets: the cache-hit test is "has been
\* computed": a run over a graph without users leaves a marker entry, and
\* every later call returns the cache as it is.
precomputeReachSets_marksComputed(cache) ==
    IF Cardinality(DOMAIN cache) > 0 THEN cache
    ELSE IF getAllUsers = << >> THEN MapSet(cache, Undefined, {})
    ELSE FillReachSets(getAllUsers, cache)

\* precomputeReachSets() on the reach-set cache `cache`: the cache itself
\* when it holds any entry, else the cache filled for all current users.
precomputeReachSets(cache) ==
    IF Cardinality(DOMAIN cache) > 0 THEN cache
    ELSE FillReachSets(getAllUsers, cache)

\* Faulty variant of the inner for-loop: the first remaining user with the
\* smallest positive number of uncovered members is taken.
RECURSIVE BestCandidate_smallestGain(_, _, _, _)
BestCandidate_smallestGain(remainingUsers, reachSets, coveredCandidates, best) ==
    IF remainingUsers = << >> THEN best
    ELSE LET userId == Head(remainingUsers)
             userReachSet == IF userId \in DOMAIN reachSets
                               THEN reachSets[userId] ELSE {}
             newCandidates == userReachSet \ coveredCandidates
             uniqueReach == Cardinality(newCandidates)
         IN  BestCandidate_smallestGain(
                Tail(remainingUsers), reachSets, coveredCandidates,
                IF uniqueReach > 0 /\ (best.bestUser = Null
                                       \/ uniqueReach < best.bestUniqueReach)
                  THEN [bestUser |-> userId, bestUniqueReach |-> uniqueReach,
                        bestNewCandidates |-> newCandidates]
                  ELSE best)

\* Faulty variant of the inner for-loop: a later user with the same number
\* of uncovered members replaces the best user found so far.
RECURSIVE BestCandidate_lastOfTies(_, _, _, _)
BestCandidate_lastOfTies(remainingUsers, reachSets, coveredCandidates, best) ==
    IF remainingUsers = << >> THEN best
    ELSE LET userId == Head(remainingUsers)
             userReachSet == IF userId \in DOMAIN reachSets
                               THEN reachSets[userId] ELSE {}
             newCandidates == userReachSet \ coveredCandidates
             uniqueReach == Cardinality(newCandidates)
         IN  BestCandidate_lastOfTies(
                Tail(remainingUsers), reachSets, coveredCandidates,
                IF uniqueReach >= best.bestUniqueReach
                  THEN [bestUser |-> userId, bestUniqueReach |-> uniqueReach,
                        bestNewCandidates |-> newCandidates]
                  ELSE best)

\* The inner for-loop of calculateUniqueReachExpansion: the first remaining
\* user, in iteration order, with the largest number of uncovered members
\* in its reach set.
RECURSIVE BestCandidate(_, _, _, _)
BestCandidate(remainingUsers, reachSets, coveredCandidates, best) ==
    IF remainingUsers = << >> THEN best
    ELSE LET userId == Head(remainingUsers)
             userReachSet == IF userId \in DOMAIN reachSets
                               THEN reachSets[userId] ELSE {}
             newCandidates == userReachSet \ coveredCandidates
             uniqueReach == Cardinality(newCandidates)
         IN  BestCandidate(
                Tail(remainingUsers), reachSets, coveredCandidates,
                IF uniqueReach > best.bestUniqueReach
                  THEN [bestUser |-> userId, bestUniqueReach |-> uniqueReach,
                        bestNewCandidates |-> newCandidates]
                  ELSE best)

\* Faulty variant of the while-loop: it is left after the first selection.
GreedyLoop_singleRound(remainingUsers, reachSets, coveredCandidates, rankedInfluencers) ==
    IF remainingUsers = << >> THEN rankedInfluencers
    ELSE LET best == BestCandidate(
                        remainingUsers, reachSets, coveredCandidates,
                        [bestUser |-> Null, bestUniqueReach |-> 0,
                         bestNewCandidates |-> {}])
         IN  IF best.bestUser = Null \/ best.bestUniqueReach = 0
               THEN rankedInfluencers
               ELSE Append(rankedInfluencers,
                           [userId |-> best.bestUser, score |-> best.bestUniqueReach])

\* The while-loop of calculateUniqueReachExpansion.
RECURSIVE GreedyLoop(_, _, _, _)
GreedyLoop(remainingUsers, reachSets, coveredCandidates, rankedInfluencers) ==
    IF remainingUsers = << >> THEN rankedInfluencers
    ELSE LET best == BestCandidate(
                        remainingUsers, reachSets, coveredCandidates,
                        [bestUser |-> Null, bestUniqueReach |-> 0,
                         bestNewCandidates |-> {}])
         IN  IF best.bestUser = Null \/ best.bestUniqueReach = 0
               THEN rankedInfluencers
               ELSE GreedyLoop(
                       SetDelete(remainingUsers, best.bestUser),
                       reachSets,
                       coveredCandidates \cup best.bestNewCandidates,
                       Append(rankedInfluencers,
                              [userId |-> best.bestUser,
                               score |-> best.bestUniqueReach]))

\* The number of rounds the while-loop of calculateUniqueReachExpansion
\* runs, the round that leaves the loop included.
RECURSIVE GreedyRounds(_, _, _, _)
GreedyRounds(remainingUsers, reachSets, coveredCandidates, rounds) ==
    IF remainingUsers = << >> THEN rounds
    ELSE LET best == BestCandidate(
                        remainingUsers, reachSets, coveredCandidates,
                        [bestUser |-> Null, bestUniqueReach |-> 0,
                         bestNewCandidates |-> {}])
         IN  IF best.bestUser = Null \/ best.bestUniqueReach = 0
               THEN rounds + 1
               ELSE GreedyRounds(
                       SetDelete(remainingUsers, best.bestUser),
                       reachSets,
                       coveredCandidates \cup best.bestNewCandidates,
                       rounds + 1)

\* calculateUniqueReachExpansion() on the reach-set cache `cache`: the
\* list returned and the cache the call leaves.
calculateUniqueReachExpansion(cache) ==
    [value |-> GreedyLoop(getAllUsers, precomputeReachSets(cache), {}, << >>),
     cache |-> precomputeReachSets(cache)]

\* A call of calculateUniqueReachExpansion.
calculateUniqueReachExpansionCall ==
    /\ lastOp' = "calculateUniqueReachExpansion"
    /\ UNCHANGED <<callArgs, otherCache>>
    /\ lastResult' = Returned(calculateUniqueReachExpansion(reachSetsCache).value)
    /\ reachSetsCache' = calculateUniqueReachExpansion(reachSetsCache).cache
    /\ UNCHANGED <<graphVars, totalReachCache, shortestPathCache>>

(* --------------------------- flow centrality --------------------------- *)

\* The distance Infinity given to unreachable users: a number above every
\* sum of two path lengths.
Infinity == 1000

\* The for-loop over the direct referrals in computeShortestPathsFromSource.
RECURSIVE RelaxReferrals(_, _, _, _, _)
RelaxReferrals(directReferrals, visited, distance, distances, queue) ==
    IF directReferrals = << >> THEN [distances |-> distances, queue |-> queue]
    ELSE LET referralId == Head(directReferrals)
             newDistance == distance + 1
         IN  IF /\ referralId \notin visited
                /\ \/ referralId \notin DOMAIN distances
                   \/ newDistance < distances[referralId]
               THEN RelaxReferrals(
                       Tail(directReferrals), visited, distance,
                       MapSet(distances, referralId, newDistance),
                       Append(queue, [userId |-> referralId, distance |-> newDistance]))
               ELSE RelaxReferrals(Tail(directReferrals), visited, distance,
                                   distances, queue)

\* The while-loop of computeShortestPathsFromSource.
RECURSIVE ShortestPathLoop(_, _, _)
ShortestPathLoop(queue, visited, distances) ==
    IF queue = << >> THEN distances
    ELSE LET userId == Head(queue).userId
             distance == Head(queue).distance
         IN  IF userId \in visited
               THEN ShortestPathLoop(Tail(queue), visited, distances)
               ELSE LET relaxed == RelaxReferrals(
                                      getDirectReferrals(userId),
                                      visited \cup {userId}, distance,
                                      distances, Tail(queue))
                    IN  ShortestPathLoop(relaxed.queue, visited \cup {userId},
                                         relaxed.distances)

\* computeShortestPathsFromSource: the distances found by the traversal,
\* and Infinity for every other current user.
computeShortestPathsFromSource(sourceUserId) ==
    LET distances == ShortestPathLoop(
                        <<[userId |-> sourceUserId, distance |-> 0]>>, {},
                        MapSet(<< >>, sourceUserId, 0))
    IN  [userId \in (DOMAIN distances) \cup Range(getAllUsers) |->
            IF userId \in DOMAIN distances THEN distances[userId] ELSE Infinity]

\* The for-loop of computeAllPairsShortestPaths.
RECURSIVE FillShortestPaths(_, _)
FillShortestPaths(allUsers, cache) ==
    IF allUsers = << >> THEN cache
    ELSE FillShortestPaths(
            Tail(allUsers),
            IF Head(allUsers) \in DOMAIN cache THEN cache
            ELSE MapSet(cache, Head(allUsers),
                        computeShortestPathsFromSource(Head(allUsers))))

\* computeAllPairsShortestPaths() on the shortest-path cache `cache`.
computeAllPairsShortestPaths(cache) ==
    IF Cardinality(DOMAIN cache) > 0 THEN cache
    ELSE FillShortestPaths(getAllUsers, cache)

\* Faulty variant of the innermost loop body: the source user is not
\* skipped as an intermediate user.
OnShortestPath_sourceCounted(shortestPaths, sourceUser, targetUser, intermediateUser) ==
    LET sourceDistances == shortestPaths[sourceUser]
        shortestDistance == sourceDistances[targetUser]
    IN  /\ intermediateUser # targetUser
        /\ intermediateUser \in DOMAIN sourceDistances
        /\ intermediateUser \in DOMAIN shortestPaths
        /\ targetUser \in DOMAIN shortestPaths[intermediateUser]
        /\ sourceDistances[intermediateUser] # Infinity
        /\ shortestPaths[intermediateUser][targetUser] # Infinity
        /\ sourceDistances[intermediateUser]
              + shortestPaths[intermediateUser][targetUser] = shortestDistance

\* The body of the innermost loop of calculateFlowCentrality: whether the
\* score of intermediateUser is incremented for the pair.
OnShortestPath(shortestPaths, sourceUser, targetUser, intermediateUser) ==
    LET sourceDistances == shortestPaths[sourceUser]
        shortestDistance == sourceDistances[targetUser]
    IN  /\ intermediateUser # sourceUser
        /\ intermediateUser # targetUser
        /\ intermediateUser \in DOMAIN sourceDistances
        /\ intermediateUser \in DOMAIN shortestPaths
        /\ targetUser \in DOMAIN shortestPaths[intermediateUser]
        /\ sourceDistances[intermediateUser] # Infinity
        /\ shortestPaths[intermediateUser][targetUser] # Infinity
        /\ sourceDistances[intermediateUser]
              + shortestPaths[intermediateUser][targetUser] = shortestDistance

\* The loop over the intermediate users for one source and one target.
RECURSIVE IntermediateLoop(_, _, _, _, _)
IntermediateLoop(intermediates, shortestPaths, sourceUser, targetUser, scores) ==
    IF intermediates = << >> THEN scores
    ELSE IntermediateLoop(
            Tail(intermediates), shortestPaths, sourceUser, targetUser,
            IF OnShortestPath(shortestPaths, sourceUser, targetUser, Head(intermediates))
              THEN [scores EXCEPT ![Head(intermediates)] = @ + 1]
              ELSE scores)

\* The loop over the target users for one source.
RECURSIVE TargetLoop(_, _, _, _)
TargetLoop(targets, shortestPaths, sourceUser, scores) ==
    IF targets = << >> THEN scores
    ELSE LET targetUser == Head(targets)
         IN  TargetLoop(
                Tail(targets), shortestPaths, sourceUser,
                IF \/ sourceUser = targetUser
                   \/ sourceUser \notin DOMAIN shortestPaths
                   \/ targetUser \notin DOMAIN shortestPaths
                   \/ targetUser \notin DOMAIN shortestPaths[sourceUser]
                   \/ shortestPaths[sourceUser][targetUser] = Infinity
                  THEN scores
                  ELSE IntermediateLoop(getAllUsers, shortestPaths, sourceUser,
                                        targetUser, scores))

\* The loop over the source users.
RECURSIVE SourceLoop(_, _, _)
SourceLoop(sources, shortestPaths, scores) ==
    IF sources = << >> THEN scores
    ELSE SourceLoop(Tail(sources), shortestPaths,
                    TargetLoop(getAllUsers, shortestPaths, Head(sources), scores))

\* The entries of centralityScores with a positive score, in the order of
\* the map, which is the order of getAllUsers.
RECURSIVE PositiveScores(_, _)
PositiveScores(allUsers, scores) ==
    IF allUsers = << >> THEN << >>
    ELSE (IF scores[Head(allUsers)] > 0
            THEN <<[userId |-> Head(allUsers), score |-> scores[Head(allUsers)]]>>
            ELSE << >>)
         \o PositiveScores(Tail(allUsers), scores)

\* calculateFlowCentrality() on the shortest-path cache `cache`: the list
\* returned and the cache the call leaves.
calculateFlowCentrality(cache) ==
    LET shortestPaths == computeAllPairsShortestPaths(cache)
        scores == SourceLoop(getAllUsers, shortestPaths,
                             [userId \in Range(getAllUsers) |-> 0])
    IN  [value |-> SortByScore(PositiveScores(getAllUsers, scores)),
         cache |-> shortestPaths]

\* Faulty variant of the call: a current user without an entry in the
\* shortest-path map makes the call throw.
calculateFlowCentralityCall_strictLookup ==
    /\ lastOp' = "calculateFlowCentrality"
    /\ UNCHANGED <<callArgs, otherCache>>
    /\ lastResult' =
          IF Range(getAllUsers)
                \subseteq DOMAIN computeAllPairsShortestPaths(shortestPathCache)
            THEN Returned(calculateFlowCentrality(shortestPathCache).value)
            ELSE Thrown(USER_NOT_FOUND)
    /\ shortestPathCache' = calculateFlowCentrality(shortestPathCache).cache
    /\ UNCHANGED <<graphVars, totalReachCache, reachSetsCache>>

\* A call of calculateFlowCentrality.
calculateFlowCentralityCall ==
    /\ lastOp' = "calculateFlowCentrality"
    /\ UNCHANGED <<callArgs, otherCache>>
    /\ lastResult' = Returned(calculateFlowCentrality(shortestPathCache).value)
    /\ shortestPathCache' = calculateFlowCentrality(shortestPathCache).cache
    /\ UNCHANGED <<graphVars, totalReachCache, reachSetsCache>>

\* Faulty variant of clearCache: only the total-reach map is emptied.
clearCache_reachOnly ==
    /\ lastOp' = "clearCache"
    /\ UNCHANGED <<callArgs, otherCache>>
    /\ lastResult' = Returned(Undefined)
    /\ totalReachCache' = << >>
    /\ UNCHANGED <<graphVars, shortestPathCache, reachSetsCache>>

\* clearCache(): NetworkCacheImpl.clear() empties the three maps.
clearCache ==
    /\ lastOp' = "clearCache"
    /\ UNCHANGED <<callArgs, otherCache>>
    /\ lastResult' = Returned(Undefined)
    /\ totalReachCache' = << >>
    /\ shortestPathCache' = << >>
    /\ reachSetsCache' = << >>
    /\ UNCHANGED graphVars

(* ------------------------ a second NetworkAnalyzer --------------------- *)

\* new NetworkAnalyzer(graph) for the second analyzer: this.cache is a new
\* NetworkCacheImpl; the graph and the first analyzer are not touched.
otherConstructor ==
    /\ lastOp' = "other.constructor"
    /\ lastResult' = Returned(TRUE)
    /\ otherCache' = EmptyCache
    /\ UNCHANGED <<graphVars, cacheVars, callArgs>>

\* Faulty variant of the call: the cache is one object shared by all
\* analyzers, the call reads and writes the cache of the first one.
otherCalculateTotalReachCall_sharedCache(userId) ==
    /\ lastOp' = "other.calculateTotalReach"
    /\ lastResult' = Returned(calculateTotalReach(totalReachCache, userId).value)
    /\ totalReachCache' = calculateTotalReach(totalReachCache, userId).cache
    /\ UNCHANGED <<graphVars, shortestPathCache, reachSetsCache, callArgs, otherCache>>

\* A call of calculateTotalReach(userId) on the second analyzer.
otherCalculateTotalReachCall(userId) ==
    /\ lastOp' = "other.calculateTotalReach"
    /\ lastResult' =
          Returned(calculateTotalReach(otherCache.totalReachCache, userId).value)
    /\ otherCache' =
          [otherCache EXCEPT
              !.totalReachCache = calculateTotalReach(@, userId).cache]
    /\ UNCHANGED <<graphVars, cacheVars, callArgs>>

\* clearCache() on the second analyzer.
otherClearCache ==
    /\ lastOp' = "other.clearCache"
    /\ lastResult' = Returned(Undefined)
    /\ otherCache' = EmptyCache
    /\ UNCHANGED <<graphVars, cacheVars, callArgs>>

(* --------------------------- NetworkSimulator -------------------------- *)

INVALID_PROBABILITY == "Probability must be between 0 and 1"

INITIAL_REFERRERS == 100
REFERRAL_CAPACITY == 10

\* Probabilities, capacities and expected referral counts are numbers with
\* ProbBits binary digits after the point, which JavaScript numbers add,
\* subtract and compare exactly; the integer n stands for n / ProbDen.
ProbBits == 3
ProbDen == 2 ^ ProbBits

\* The whole number n as such a number.
Whole(n) == n * ProbDen

\* The probabilities given to the simulator: below 0, from 0 to 1, above 1.
ProbInputs == (-1)..(ProbDen + 1)

\* The numbers of days given to simulate, and the largest one.
MaxDays == 16
DayInputs == (-1)..MaxDays

\* The targets given to daysToTarget.
TargetInputs ==
    {-1, 0, 1, INITIAL_REFERRERS, 5 * INITIAL_REFERRERS,
     INITIAL_REFERRERS * REFERRAL_CAPACITY, INITIAL_REFERRERS * REFERRAL_CAPACITY + 1}

\* Math.min
Min(a, b) == IF a < b THEN a ELSE b

\* initializeSimulation(): referrer_0 .. referrer_99, here 1 .. 100, each
\* with the full capacity.
initializeSimulation ==
    [activeReferrers |-> [i \in 1..INITIAL_REFERRERS |-> Whole(REFERRAL_CAPACITY)],
     totalReferrals |-> 0,
     day |-> 0]

calculateExpectedDailyReferrals(activeReferrersCount, probability) ==
    activeReferrersCount * probability

\* newCapacity > 0.001
Meaningful(newCapacity) == newCapacity * 1000 > ProbDen

\* The sum expectedReferrals of simulateExpectedState over the referrers
\* lo .. hi; the numbers are added exactly, so the grouping of the terms
\* is immaterial.
RECURSIVE ExpectedReferrals(_, _, _, _)
ExpectedReferrals(lo, hi, activeReferrers, probability) ==
    IF lo = hi
      THEN (IF lo \in DOMAIN activeReferrers
              THEN Min(probability, activeReferrers[lo]) ELSE 0)
    ELSE LET mid == (lo + hi) \div 2
         IN  ExpectedReferrals(lo, mid, activeReferrers, probability)
             + ExpectedReferrals(mid + 1, hi, activeReferrers, probability)

\* simulateExpectedState(state, probability): every active referrer loses
\* min(probability, remainingCapacity) and stays active while more than
\* 0.001 is left.  The new Map is built entry by entry as in the code:
\* @@ with the empty function enumerates it, so that a day's map does not
\* refer back to the maps of the days before it.
simulateExpectedState(state, probability) ==
    LET NewCapacity(i) ==
            state.activeReferrers[i] - Min(probability, state.activeReferrers[i])
    IN  [activeReferrers |->
            [i \in { j \in DOMAIN state.activeReferrers :
                        Meaningful(NewCapacity(j)) } |-> NewCapacity(i)] @@ << >>,
         totalReferrals |->
            state.totalReferrals + ExpectedReferrals(1, INITIAL_REFERRERS, state.activeReferrers, probability),
         day |-> state.day + 1]

\* The for-loop of simulate.
RECURSIVE SimulateLoop(_, _, _, _, _)
SimulateLoop(day, days, probability, state, results) ==
    IF ~(day < days) THEN results
    ELSE LET expectedDailyReferrals ==
                 calculateExpectedDailyReferrals(
                     Cardinality(DOMAIN state.activeReferrers), probability)
             cumulativeExpected ==
                 IF day = 0 THEN expectedDailyReferrals
                 ELSE results[day] + expectedDailyReferrals
         IN  SimulateLoop(day + 1, days, probability,
                          simulateExpectedState(state, probability),
                          Append(results, cumulativeExpected))

\* simulate(probability, days): what the call throws or returns.
simulate(probability, days) ==
    IF days <= 0 THEN Thrown(INVALID_PARAMETER)
    ELSE IF probability < 0 \/ probability > ProbDen THEN Thrown(INVALID_PROBABILITY)
    ELSE Returned(SimulateLoop(0, days, probability, initializeSimulation, << >>))

\* The while-loop of daysToTarget.
RECURSIVE DaysToTargetLoop(_, _, _, _, _)
DaysToTargetLoop(probability, target, state, cumulativeReferrals, day) ==
    IF ~(cumulativeReferrals < Whole(target)
         /\ Cardinality(DOMAIN state.activeReferrers) > 0)
      THEN -1
    ELSE LET expectedDailyReferrals ==
                 calculateExpectedDailyReferrals(
                     Cardinality(DOMAIN state.activeReferrers), probability)
         IN  IF cumulativeReferrals + expectedDailyReferrals >= Whole(target)
               THEN day + 1
               ELSE DaysToTargetLoop(probability, target,
                                     simulateExpectedState(state, probability),
                                     cumulativeReferrals + expectedDailyReferrals,
                                     day + 1)

\* daysToTarget(probability, target) for a probability from 0 to 1: the
\* number returned.
DaysToTarget(probability, target) ==
    IF target <= 0 THEN 0
    ELSE IF probability <= 0 THEN -1
    ELSE IF target > INITIAL_REFERRERS * REFERRAL_CAPACITY THEN -1
    ELSE DaysToTargetLoop(probability, target, initializeSimulation, 0, 0)

\* daysToTarget(probability, target): what the call throws or returns.
daysToTarget(probability, target) ==
    IF probability < 0 \/ probability > ProbDen THEN Thrown(INVALID_PROBABILITY)
    ELSE Returned(DaysToTarget(probability, target))

\* The calls a client makes to the simulator.
SimulationCalls ==
    { [op |-> "simulate", probability |-> probability, days |-> days] :
         probability \in ProbInputs, days \in DayInputs }
    \cup
    { [op |-> "daysToTarget", probability |-> probability, target |-> target] :
         probability \in ProbInputs, target \in TargetInputs }

\* The state after construction in which the client is about to make the
\* call callArgs, one of `calls`.
InitCall(calls) ==
    /\ users = << >>
    /\ userKeys = << >>
    /\ adjacencyList = << >>
    /\ reverseAdjacencyList = << >>
    /\ lastOp = "constructor"
    /\ lastResult = Returned(TRUE)
    /\ totalReachCache = << >>
    /\ shortestPathCache = << >>
    /\ reachSetsCache = << >>
    /\ callArgs \in calls
    /\ otherCache = EmptyCache

\* The call of simulate the client is about to make.
simulateCall ==
    /\ lastOp = "constructor"
    /\ callArgs.op = "simulate"
    /\ lastOp' = "simulate"
    /\ UNCHANGED <<callArgs, otherCache>>
    /\ lastResult' = simulate(callArgs.probability, callArgs.days)
    /\ UNCHANGED <<graphVars, cacheVars>>

\* The call of daysToTarget the client is about to make.
daysToTargetCall ==
    /\ lastOp = "constructor"
    /\ callArgs.op = "daysToTarget"
    /\ lastOp' = "daysToTarget"
    /\ UNCHANGED <<callArgs, otherCache>>
    /\ lastResult' = daysToTarget(callArgs.probability, callArgs.target)
    /\ UNCHANGED <<graphVars, cacheVars>>

InitSimulation == InitCall(SimulationCalls)

NextSimulation == simulateCall \/ daysToTargetCall

SpecSimulation == InitSimulation /\ [][NextSimulation]_vars

(* ---------------------------- BonusOptimizer --------------------------- *)

MAX_EXPANSIONS == 32
MAX_BINARY_ITERS == 1024

\* Bonuses are numbers whose halves stay exact down to the unit: the
\* integer n stands for the bonus n * 10 / Ten.  eps is given in the same
\* unit, so the midpoints of the bisection are exact as in JavaScript.
BonusBits == 2
Ten == 2 ^ (BonusBits + 1)

\* The value null, and the number b, of type number | null.
NoBonus == << >>
Bonus(b) == <<b>>

\* The adoption functions given to the optimizer: below the bonus t1 the
\* probability `below`, from t1 to below t2 `inside`, from t2 on `above`.
\* They need not be monotone, and may return numbers outside [0, 1].
Breakpoints == {Ten \div 2, Ten + 3, 3 * Ten + 1, 4 * Ten}
LargestBreakpoint == 4 * Ten
Levels == {0, ProbDen \div 2, ProbDen + 1}

AdoptionFunctions ==
    { f \in [t1 : Breakpoints, t2 : Breakpoints,
             below : Levels, inside : Levels, above : Levels] : f.t1 < f.t2 }

adoptionProb(f, bonus) ==
    IF bonus < f.t1 THEN f.below
    ELSE IF bonus < f.t2 THEN f.inside
    ELSE f.above

\* The other arguments given to minBonusForTarget.
OptimizerDays == {0, 1, 2, 4}
OptimizerTargets ==
    {0, INITIAL_REFERRERS, 2 * INITIAL_REFERRERS,
     INITIAL_REFERRERS * REFERRAL_CAPACITY + 1}
OptimizerEps == {0, 1, Ten, 8 * Ten}

\* clamp01 on a finite number
clamp01(x) == IF x < 0 THEN 0 ELSE IF x > ProbDen THEN ProbDen ELSE x

\* Faulty variant of roundUpToNearest10: the bonus is not rounded.
roundUpToNearest10_unrounded(x) == IF x <= 0 THEN 0 ELSE x

\* roundUpToNearest10: Math.ceil(x / 10) * 10 for a positive x.
roundUpToNearest10(x) ==
    IF x <= 0 THEN 0 ELSE ((x + Ten - 1) \div Ten) * Ten

\* dX !== -1 && dX <= days for the bonus `bonus`
Feasible(adoptionFn, bonus, targetHires, days) ==
    LET d == daysToTarget(clamp01(adoptionProb(adoptionFn, bonus)), targetHires).value
    IN  d # -1 /\ d <= days

\* pHigh >= 0.999999
Saturated(pHigh) == pHigh * 1000000 >= 999999 * ProbDen

\* The value of `high` after the given number of doublings of 10.  Past
\* the largest breakpoint, where every adoption function is constant, the
\* value is no longer doubled: the loop cannot stop at such a value
\* without having stopped at the one before, and 10 * 2^32 exceeds the
\* 32-bit integers of TLC.
RECURSIVE HighAfter(_)
HighAfter(expansions) ==
    IF expansions = 0 THEN Ten
    ELSE LET high == HighAfter(expansions - 1)
         IN  IF high > LargestBreakpoint THEN high ELSE high * 2

\* The exponential search: how the loop is left, and after how many
\* doublings.
RECURSIVE ExpansionLoop(_, _, _, _)
ExpansionLoop(adoptionFn, targetHires, days, expansions) ==
    IF ~(expansions < MAX_EXPANSIONS)
      THEN [outcome |-> "exhausted", expansions |-> expansions]
    ELSE IF Feasible(adoptionFn, HighAfter(expansions), targetHires, days)
      THEN [outcome |-> "found", expansions |-> expansions]
    ELSE IF Saturated(clamp01(adoptionProb(adoptionFn, HighAfter(expansions))))
      THEN [outcome |-> "saturated", expansions |-> expansions]
    ELSE ExpansionLoop(adoptionFn, targetHires, days, expansions + 1)

\* The bisection: the final `high` and the number of iterations.
RECURSIVE BisectionLoop(_, _, _, _, _, _, _)
BisectionLoop(adoptionFn, targetHires, days, eps, low, high, iter) ==
    IF ~(high - low > eps /\ iter < MAX_BINARY_ITERS)
      THEN [high |-> high, iter |-> iter]
    ELSE LET mid == (low + high) \div 2
         IN  IF Feasible(adoptionFn, mid, targetHires, days)
               THEN BisectionLoop(adoptionFn, targetHires, days, eps, low, mid, iter + 1)
               ELSE BisectionLoop(adoptionFn, targetHires, days, eps, mid, high, iter + 1)

\* The rounding and the final safety check of minBonusForTarget.
RoundedBonus(adoptionFn, targetHires, days, high) ==
    LET rounded == roundUpToNearest10(high)
        fallback == roundUpToNearest10(rounded + Ten)
    IN  IF Feasible(adoptionFn, rounded, targetHires, days) THEN Bonus(rounded)
        ELSE IF Feasible(adoptionFn, fallback, targetHires, days) THEN Bonus(fallback)
        ELSE NoBonus

\* minBonusForTarget(days, targetHires, adoptionProb, eps) with finite
\* numbers and a function: what the call throws or returns, the number of
\* doublings and the number of bisection steps.
minBonusForTargetRun(days, targetHires, adoptionFn, eps) ==
    LET search == ExpansionLoop(adoptionFn, targetHires, days, 0)
        low == IF search.expansions = 0 THEN 0 ELSE HighAfter(search.expansions - 1)
        bisection == BisectionLoop(adoptionFn, targetHires, days, eps,
                                   low, HighAfter(search.expansions), 0)
        Outcome(result, expansions, iter) ==
            [result |-> result, expansions |-> expansions, iter |-> iter]
    IN  IF days <= 0 \/ targetHires <= 0 \/ eps <= 0
          THEN Outcome(Thrown(INVALID_PARAMETER), 0, 0)
        ELSE IF targetHires > INITIAL_REFERRERS * REFERRAL_CAPACITY
          THEN Outcome(Returned(NoBonus), 0, 0)
        ELSE IF \/ daysToTarget(ProbDen, targetHires).value = -1
                \/ daysToTarget(ProbDen, targetHires).value > days
          THEN Outcome(Returned(NoBonus), 0, 0)
        ELSE IF Feasible(adoptionFn, 0, targetHires, days)
          THEN Outcome(Returned(Bonus(0)), 0, 0)
        ELSE IF search.outcome # "found"
          THEN Outcome(Returned(NoBonus), search.expansions, 0)
        ELSE Outcome(Returned(RoundedBonus(adoptionFn, targetHires, days, bisection.high)),
                     search.expansions, bisection.iter)

minBonusForTarget(days, targetHires, adoptionFn, eps) ==
    minBonusForTargetRun(days, targetHires, adoptionFn, eps).result

\* The calls a client makes to the optimizer.
OptimizerCalls ==
    { [op |-> "minBonusForTarget", days |-> days, targetHires |-> targetHires,
       adoptionProb |-> adoptionFn, eps |-> eps] :
         days \in OptimizerDays, targetHires \in OptimizerTargets,
         adoptionFn \in AdoptionFunctions, eps \in OptimizerEps }

\* The call of minBonusForTarget the client is about to make.
minBonusForTargetCall ==
    /\ lastOp = "constructor"
    /\ callArgs.op = "minBonusForTarget"
    /\ lastOp' = "minBonusForTarget"
    /\ UNCHANGED <<callArgs, otherCache>>
    /\ lastResult' = minBonusForTarget(callArgs.days, callArgs.targetHires,
                                       callArgs.adoptionProb, callArgs.eps)
    /\ UNCHANGED <<graphVars, cacheVars>>

InitOptimizer == InitCall(OptimizerCalls)

NextOptimizer == minBonusForTargetCall

SpecOptimizer == InitOptimizer /\ [][NextOptimizer]_vars

Next ==
    \/ \E userId \in Ids : addUser(userId)
    \/ \E referrerId \in Ids, candidateId \in Ids : addReferral(referrerId, candidateId)
    \/ \E referrerId \in Ids, candidateId \in Ids :
          validateAcyclicityCall(referrerId, candidateId)

Spec == Init /\ [][Next]_vars

\* The graph operations as the analyzer specifications take them: the calls
\* that change the graph.  Users register in the order of Letters: ids are
\* opaque to the graph and to the analyzer (compared for equality only), so
\* every other registration order is a renaming of one of these.  A failing
\* call leaves the graph and the caches as they are.
registerUpTo(n) ==
    /\ Len(userKeys) < n
    /\ addUser(<<Letters[Len(userKeys) + 1]>>)

registerNext == registerUpTo(NumIds)

refer ==
    \E referrerId \in Range(userKeys), candidateId \in Range(userKeys) :
        /\ addReferralCheck(referrerId, candidateId) = "none"
        /\ addReferral(referrerId, candidateId)

\* The graph together with an analyzer answering total-reach queries.
NextReach ==
    \/ registerNext
    \/ refer
    \/ \E userId \in Ids : calculateTotalReachCall(userId)
    \/ \E k \in KInputs : getTopReferrersByReachCall(k)
    \/ clearCache

SpecReach == Init /\ [][NextReach]_vars

\* The greedy ranking needs two disjoint subtrees, and the centrality
\* ranking a chain with two inner users, to return more than one entry:
\* their specifications register one user more.
MaxRankedUsers == NumIds + 1

\* The graph together with an analyzer answering reach-expansion queries.
NextExpansion ==
    \/ registerUpTo(MaxRankedUsers)
    \/ refer
    \/ calculateUniqueReachExpansionCall
    \/ clearCache

SpecExpansion == Init /\ [][NextExpansion]_vars

\* The graph together with an analyzer answering flow-centrality queries.
NextCentrality ==
    \/ registerUpTo(MaxRankedUsers)
    \/ refer
    \/ calculateFlowCentralityCall
    \/ clearCache

SpecCentrality == Init /\ [][NextCentrality]_vars

\* The graph together with an analyzer answering every query, so that the
\* three caches are filled and go stale independently of each other; one
\* user fewer is registered than in the other specifications.
MaxAnalyzerUsers == NumIds - 1

NextAnalyzer ==
    \/ registerUpTo(MaxAnalyzerUsers)
    \/ refer
    \/ \E userId \in Ids : calculateTotalReachCall(userId)
    \/ \E k \in KInputs : getTopReferrersByReachCall(k)
    \/ calculateUniqueReachExpansionCall
    \/ calculateFlowCentralityCall
    \/ clearCache

SpecAnalyzer == Init /\ [][NextAnalyzer]_vars

\* The analyzer of SpecAnalyzer over a graph that also receives the calls
\* of addUser and addReferral that fail or decline: those with the empty
\* id, the blank id, an id already registered or an id not yet registered.
RetryIds == { <<Letters[i]>> : i \in 1..MaxAnalyzerUsers } \cup {EmptyId, BlankId}

declinedAddUser ==
    \E userId \in RetryIds :
        /\ ~Truthy(userId) \/ trim(userId) = << >> \/ hasUser(userId)
        /\ addUser(userId)

failedAddReferral ==
    \E referrerId \in RetryIds, candidateId \in RetryIds :
        /\ addReferralCheck(referrerId, candidateId) # "none"
        /\ addReferral(referrerId, candidateId)

NextRetry ==
    \/ registerUpTo(MaxAnalyzerUsers)
    \/ refer
    \/ declinedAddUser
    \/ failedAddReferral
    \/ \E userId \in RetryIds : calculateTotalReachCall(userId)
    \/ \E k \in KInputs : getTopReferrersByReachCall(k)
    \/ calculateUniqueReachExpansionCall
    \/ calculateFlowCentralityCall
    \/ clearCache

SpecRetry == Init /\ [][NextRetry]_vars

\* A graph in which the first user refers more users than referralCapacity
\* counts.  Users register in the order of Letters; the candidate of a
\* referral is the user registered last or the first user, the referrer is
\* the first user, the second user or the empty id.
MaxWideUsers == 12

WideReferrals ==
    IF userKeys = << >> THEN {}
    ELSE { <<userKeys[1], userKeys[Len(userKeys)]>>,
           <<userKeys[1], userKeys[1]>>,
           <<<<Letters[2]>>, userKeys[1]>>,
           <<EmptyId, userKeys[Len(userKeys)]>> }

NextWide ==
    \/ registerUpTo(MaxWideUsers)
    \/ \E p \in WideReferrals : addReferral(p[1], p[2])

SpecWide == Init /\ [][NextWide]_vars

\* An analyzer answering the two metrics that precompute a whole map, over
\* a graph that keeps growing between the calls.
NextStale ==
    \/ registerUpTo(NumIds)
    \/ refer
    \/ calculateUniqueReachExpansionCall
    \/ calculateFlowCentralityCall
    \/ clearCache

SpecStale == Init /\ [][NextStale]_vars

\* An analyzer answering the two rankings whose order among equal scores
\* comes from the iteration order of getAllUsers.
NextTies ==
    \/ registerUpTo(MaxRankedUsers)
    \/ refer
    \/ \E k \in KInputs : getTopReferrersByReachCall(k)
    \/ calculateUniqueReachExpansionCall
    \/ clearCache

SpecTies == Init /\ [][NextTies]_vars

\* The graph alone, asked for validateAcyclicity between the mutations.
\* Users register in the order of Letters; addUser is repeated for the
\* registered ids, and addReferral and validateAcyclicity take every pair of
\* registered ids, the pairs that addReferral refuses included.
registerAgain ==
    \E userId \in Range(userKeys) : addUser(userId)

NextAcyclic ==
    \/ registerUpTo(NumIds)
    \/ registerAgain
    \/ \E referrerId \in Range(userKeys), candidateId \in Range(userKeys) :
          addReferral(referrerId, candidateId)
    \/ \E referrerId \in Range(userKeys), candidateId \in Range(userKeys) :
          validateAcyclicityCall(referrerId, candidateId)

SpecAcyclic == Init /\ [][NextAcyclic]_vars

\* An analyzer whose client calls clearCache before it changes the graph:
\* addUser and addReferral are called only while the three caches are
\* empty, so that whatever the caches hold was computed from the current
\* graph.
cleared ==
    /\ totalReachCache = << >>
    /\ shortestPathCache = << >>
    /\ reachSetsCache = << >>

NextFresh ==
    \/ cleared /\ registerUpTo(NumIds)
    \/ cleared /\ refer
    \/ \E userId \in Range(userKeys) : calculateTotalReachCall(userId)
    \/ calculateUniqueReachExpansionCall
    \/ calculateFlowCentralityCall
    \/ clearCache

SpecFresh == Init /\ [][NextFresh]_vars

\* Two analyzers over one graph between the mutations of the graph: the
\* first is asked for the total reach of a registered user and for the
\* reach expansion, or cleared; the second is asked for the total reach of
\* a registered user, cleared, or constructed anew.
NextTwoAnalyzers ==
    \/ registerUpTo(MaxAnalyzerUsers)
    \/ refer
    \/ \E userId \in Range(userKeys) : calculateTotalReachCall(userId)
    \/ calculateUniqueReachExpansionCall
    \/ clearCache
    \/ otherConstructor
    \/ \E userId \in Range(userKeys) : otherCalculateTotalReachCall(userId)
    \/ otherClearCache

SpecTwoAnalyzers == Init /\ [][NextTwoAnalyzers]_vars


(* ===================== reference notions for the claims ================= *)

\* r -> c is a direct-referral edge.
Edge(r, c) == r \in DOMAIN adjacencyList /\ c \in Range(adjacencyList[r])

\* Every identifier that occurs in the adjacency structure.
Nodes == (DOMAIN adjacencyList)
            \cup UNION { Range(adjacencyList[r]) : r \in DOMAIN adjacencyList }

\* The direct referrals of the users in S.
Succ(S) == UNION { Range(adjacencyList[x]) : x \in S \cap DOMAIN adjacencyList }

\* Least set containing S and closed under following an edge.
RECURSIVE Closure(_)
Closure(S) == IF Succ(S) \subseteq S THEN S ELSE Closure(S \cup Succ(S))

\* Users reachable from u by zero or more / one or more edges.
ReachStar(u) == Closure({u})
ReachPlus(u) == Closure(Succ({u}))

\* The same with the edge r -> c added to the graph.
SuccWith(S, r, c) == Succ(S) \cup (IF r \in S THEN {c} ELSE {})

RECURSIVE ClosureWith(_, _, _)
ClosureWith(S, r, c) ==
    IF SuccWith(S, r, c) \subseteq S THEN S
    ELSE ClosureWith(S \cup SuccWith(S, r, c), r, c)

\* The graph with the edge r -> c added has a directed cycle.
CycleWith(r, c) ==
    \E n \in Nodes \cup {r, c} : n \in ClosureWith(SuccWith({n}, r, c), r, c)

\* Every character of the identifier is a blank (true of the empty string).
AllWhitespace(s) == \A i \in 1..Len(s) : s[i] = " "

\* The life-cycle state of an identifier.
NodeState(u) ==
    IF ~hasUser(u) THEN "unregistered"
    ELSE IF getReferrer(u) = Undefined THEN "registered"
    ELSE "referred"

(* ================================ claims ================================ *)

\* C1: after any sequence of addUser and addReferral calls, successful or
\* failing, the direct-referral edges contain no directed cycle and no
\* self-loop: no registered user reaches itself by one or more edges.
C1_Acyclic ==
    \A u \in Nodes \cup DOMAIN users : u \notin ReachPlus(u) /\ ~Edge(u, u)

\* C1 witness: a chain of two edges exists and the last call was an
\* addReferral refused because it would have closed a cycle.
C1_Witness ==
    /\ lastOp = "addReferral"
    /\ lastResult = Thrown(CYCLE_DETECTED)
    /\ \E u \in DOMAIN users, v \in DOMAIN users, w \in DOMAIN users :
          Edge(u, v) /\ Edge(v, w)

\* C2 (state part): every user has at most one referrer.
C2_AtMostOneReferrer ==
    \A u \in DOMAIN users :
        /\ Cardinality({ r \in Nodes : Edge(r, u) }) <= 1
        /\ Len(reverseAdjacencyList[u]) <= 1

\* C2 (step part): a referrer, once set, is never changed or cleared, and
\* per user the only transitions are unregistered -> registered (by a
\* successful addUser) and registered -> referred (by a successful
\* addReferral); referred is terminal.
C2_Step ==
    \A u \in Ids :
        /\ getReferrer(u) # Undefined => getReferrer(u)' = getReferrer(u)
        /\ \/ NodeState(u)' = NodeState(u)
           \/ /\ NodeState(u) = "unregistered" /\ NodeState(u)' = "registered"
              /\ addUser(u) /\ lastResult' = Returned(TRUE)
           \/ /\ NodeState(u) = "registered" /\ NodeState(u)' = "referred"
              /\ addReferral(getReferrer(u)', u) /\ lastResult' = Returned(TRUE)

\* C2: at most one referrer per user; the referrer is write-once and the
\* per-user state machine is unregistered -> registered -> referred.
C2_WriteOnceReferrer == [](C2_AtMostOneReferrer) /\ [][C2_Step]_vars

\* C2 witness: an addReferral aimed at an already referred user was refused
\* while another registered user without that edge exists.
C2_Witness ==
    /\ lastOp = "addReferral"
    /\ lastResult = Thrown(DUPLICATE_REFERRER)
    /\ \E u \in DOMAIN users, r \in DOMAIN users :
          NodeState(u) = "referred" /\ r # u /\ getReferrer(u) # r

\* C3: validateAcyclicity(r, c) is false when either id is unregistered;
\* otherwise it is false exactly when r is reachable from c by zero or more
\* direct-referral edges, which is exactly when adding the edge r -> c would
\* create a cycle.
C3_ValidateAcyclicity ==
    \A r \in Ids, c \in Ids :
        IF ~hasUser(r) \/ ~hasUser(c)
            THEN validateAcyclicity(r, c) = FALSE
            ELSE /\ validateAcyclicity(r, c) = (r \notin ReachStar(c))
                 /\ validateAcyclicity(r, c) = ~CycleWith(r, c)

\* C3 witness: the predicate has just answered false in a graph where some
\* registered user reaches another only through an intermediate user, so
\* that the answer for that pair is false one way and true the other way.
C3_Witness ==
    /\ lastOp = "validateAcyclicity"
    /\ lastResult = Returned(FALSE)
    /\ \E r \in DOMAIN users, c \in DOMAIN users :
          /\ r # c /\ ~Edge(c, r) /\ r \in ReachPlus(c)
          /\ ~validateAcyclicity(r, c)
          /\ validateAcyclicity(c, r)

\* The preconditions of C4: registered users r # c, c without a referrer.
C4_Pre(r, c) ==
    hasUser(r) /\ hasUser(c) /\ r # c /\ getReferrer(c) = Undefined

\* C4: for registered users r # c where c has no referrer, addReferral(r, c)
\* succeeds iff validateAcyclicity(r, c), evaluated in the same state, is
\* true, and throws CycleDetected iff it is false.
C4_PredicateAgreesWithMutation ==
    \A r \in Ids, c \in Ids :
        C4_Pre(r, c) =>
            /\ (addReferralResult(r, c) = Returned(TRUE)) <=> validateAcyclicity(r, c)
            /\ (addReferralResult(r, c) = Thrown(CYCLE_DETECTED))
                  <=> ~validateAcyclicity(r, c)

\* C4 witness: on a chain u -> v -> w an addReferral has just thrown
\* CycleDetected, and validateAcyclicity(w, u) is false.
C4_Witness ==
    /\ lastOp = "addReferral"
    /\ lastResult = Thrown(CYCLE_DETECTED)
    /\ \E u \in DOMAIN users, v \in DOMAIN users, w \in DOMAIN users :
          /\ Edge(u, v) /\ Edge(v, w)
          /\ C4_Pre(w, u)
          /\ ~validateAcyclicity(w, u)

\* C5: for every user c that already has a referrer and every registered
\* user r # c, addReferral(r, c) throws DuplicateReferrer, also when the edge
\* r -> c would close a cycle; CycleDetected is not reported then.
C5_DuplicateBeforeCycle ==
    \A r \in Ids, c \in Ids :
        (hasUser(r) /\ hasUser(c) /\ r # c /\ getReferrer(c) # Undefined)
            => addReferralResult(r, c) = Thrown(DUPLICATE_REFERRER)

\* C5 witness: DuplicateReferrer was thrown in a graph where a user that has
\* a referrer reaches another registered user, so that the refused edge
\* can be one that would also have closed a cycle.
C5_Witness ==
    /\ lastOp = "addReferral"
    /\ lastResult = Thrown(DUPLICATE_REFERRER)
    /\ \E r \in DOMAIN users, c \in DOMAIN users :
          /\ r # c
          /\ getReferrer(c) # Undefined
          /\ r \in ReachPlus(c)
          /\ CycleWith(r, c)

\* The outcome C6 prescribes for addReferral(r, c): the first failing check
\* in the order InvalidIdentifier, SelfReferral, UserNotFound,
\* DuplicateReferrer, CycleDetected.
C6_Expected(r, c) ==
    LET invalid   == r = EmptyId \/ c = EmptyId
        self      == r = c
        notFound  == r \notin Range(userKeys) \/ c \notin Range(userKeys)
        duplicate == \E p \in Nodes : Edge(p, c)
        cycle     == r \in ReachStar(c)
    IN  CASE invalid -> Thrown(INVALID_USER_ID)
          [] ~invalid /\ self -> Thrown(SELF_REFERRAL)
          [] ~invalid /\ ~self /\ notFound -> Thrown(USER_NOT_FOUND)
          [] ~invalid /\ ~self /\ ~notFound /\ duplicate -> Thrown(DUPLICATE_REFERRER)
          [] ~invalid /\ ~self /\ ~notFound /\ ~duplicate /\ cycle -> Thrown(CYCLE_DETECTED)
          [] OTHER -> Returned(TRUE)

\* C6: addReferral reports the first failing check in the fixed order
\* InvalidIdentifier, SelfReferral, UserNotFound, DuplicateReferrer,
\* CycleDetected; addReferral(x, x) for a non-empty unregistered x throws
\* SelfReferral, not UserNotFound.
C6_CheckOrder ==
    \A r \in Ids, c \in Ids :
        /\ addReferralResult(r, c) = C6_Expected(r, c)
        /\ (r = c /\ r # EmptyId /\ ~hasUser(r)) =>
              addReferralResult(r, c) = Thrown(SELF_REFERRAL)

\* C6 witness: SelfReferral was thrown while no user is registered at all,
\* so the call was addReferral(x, x) for a non-empty unregistered x.
C6_Witness ==
    /\ lastOp = "addReferral"
    /\ lastResult = Thrown(SELF_REFERRAL)
    /\ DOMAIN users = {}
    /\ \A x \in ValidIds : addReferralResult(x, x) = Thrown(SELF_REFERRAL)

\* C7: every failing mutation call leaves the graph exactly as it was: a
\* throwing addReferral or addUser changes no user, referrer,
\* direct-referral set or referral count; addUser throws InvalidIdentifier
\* on an empty or all-whitespace id.
C7_Step ==
    /\ lastResult'.status = "throw" =>
          /\ UNCHANGED graphVars
          /\ lastOp' \in {"addUser", "addReferral"}
          /\ lastResult'.error \in
                {INVALID_USER_ID, SELF_REFERRAL, USER_NOT_FOUND,
                 DUPLICATE_REFERRER, CYCLE_DETECTED}
          /\ lastOp' = "addUser" => lastResult'.error = INVALID_USER_ID
    /\ \A u \in Ids :
          (addUser(u) /\ AllWhitespace(u)) =>
              lastResult' = Thrown(INVALID_USER_ID)

C7_FailureLeavesGraph == [][C7_Step]_vars

\* C7 witness: an addReferral threw CycleDetected in a graph with a direct
\* edge whose reversal is the refused cycle-closing edge.
C7_Witness ==
    /\ lastOp = "addReferral"
    /\ lastResult = Thrown(CYCLE_DETECTED)
    /\ \E r \in DOMAIN users, c \in DOMAIN users :
          Edge(c, r) /\ addReferralCheck(r, c) = CYCLE_DETECTED

\* C8: a successful addReferral(r, c) returns true and changes exactly
\* three things: c's referrer becomes r, c joins r's direct-referral set,
\* r's referral count grows by 1; the set of users and every other user's
\* referrer, direct-referral set and count are unchanged.
C8_Step ==
    \A r \in Ids, c \in Ids :
        (lastOp' = "addReferral" /\ lastResult'.status = "return" /\ addReferral(r, c)) =>
            /\ lastResult' = Returned(TRUE)
            /\ getReferrer(c) = Undefined /\ getReferrer(c)' = r
            /\ c \notin Range(getDirectReferrals(r))
            /\ Range(getDirectReferrals(r)') = Range(getDirectReferrals(r)) \cup {c}
            /\ Range(users'[r].directReferrals) = Range(users[r].directReferrals) \cup {c}
            /\ users'[r].referralsMade = users[r].referralsMade + 1
            /\ userKeys' = userKeys
            /\ DOMAIN users' = DOMAIN users
            /\ \A u \in DOMAIN users :
                  /\ u # c => getReferrer(u)' = getReferrer(u)
                  /\ u # r => /\ getDirectReferrals(u)' = getDirectReferrals(u)
                              /\ users'[u].directReferrals = users[u].directReferrals
                              /\ users'[u].referralsMade = users[u].referralsMade
                  /\ users'[u].id = users[u].id
                  /\ users'[u].isActive = users[u].isActive
                  /\ users'[u].referralCapacity = users[u].referralCapacity

C8_SuccessFrame == [][C8_Step]_vars

\* C8 witness: an addReferral has just succeeded and its referrer now has
\* two direct referrals.
C8_Witness ==
    /\ lastOp = "addReferral"
    /\ lastResult = Returned(TRUE)
    /\ \E r \in DOMAIN users :
          users[r].referralsMade = 2 /\ Len(getDirectReferrals(r)) = 2

\* C9: addUser on a registered id returns false and changes nothing;
\* addUser on a valid new id returns true and creates a user with no
\* referrer, no direct referrals and referral count 0, every other user
\* unchanged.
C9_Step ==
    \A u \in Ids :
        addUser(u) =>
            IF hasUser(u)
                THEN lastResult' = Returned(FALSE) /\ UNCHANGED graphVars
            ELSE IF ~AllWhitespace(u)
                THEN /\ lastResult' = Returned(TRUE)
                     /\ DOMAIN users' = (DOMAIN users) \cup {u}
                     /\ userKeys' = Append(userKeys, u)
                     /\ getReferrer(u)' = Undefined
                     /\ getDirectReferrals(u)' = << >>
                     /\ users'[u].directReferrals = << >>
                     /\ users'[u].referralsMade = 0
                     /\ \A v \in DOMAIN users :
                           /\ users'[v] = users[v]
                           /\ adjacencyList'[v] = adjacencyList[v]
                           /\ reverseAdjacencyList'[v] = reverseAdjacencyList[v]
            ELSE TRUE

C9_AddUserFrame == [][C9_Step]_vars

\* C9 witness: addUser returned false in a graph whose every registered
\* user has a referrer or a direct referral.
C9_Witness ==
    /\ lastOp = "addUser"
    /\ lastResult = Returned(FALSE)
    /\ \A u \in DOMAIN users :
          getReferrer(u) # Undefined \/ users[u].referralsMade > 0

\* C10: validateAcyclicity is a pure predicate: whatever it returns, the
\* graph (users, referrers, direct-referral sets, counts) is identical
\* before and after the call.  Every operation's outcome is a function of
\* the graph alone, so the outcome of a later operation cannot depend on
\* how often the predicate was called in between.
C10_Step ==
    lastOp' = "validateAcyclicity" =>
        /\ lastResult'.status = "return"
        /\ users' = users
        /\ userKeys' = userKeys
        /\ adjacencyList' = adjacencyList
        /\ reverseAdjacencyList' = reverseAdjacencyList

C10_ValidatePure == [][C10_Step]_vars

\* C10 witness: the predicate has just answered true in a graph that holds
\* an edge and a pair of registered users whose edge is absent and legal.
C10_Witness ==
    /\ lastOp = "validateAcyclicity"
    /\ lastResult = Returned(TRUE)
    /\ \E u \in DOMAIN users : getReferrer(u) # Undefined
    /\ \E r \in DOMAIN users, c \in DOMAIN users :
          /\ ~Edge(r, c) /\ getReferrer(c) = Undefined
          /\ validateAcyclicity(r, c)

\* C11 (step): the set of registered users and the set of referral edges
\* only grow: a registered user stays registered, and an edge r -> c stays
\* in getDirectReferrals(r) and as getReferrer(c).
C11_Step ==
    /\ \A u \in DOMAIN users : u \in DOMAIN users'
    /\ \A i \in 1..Len(userKeys) : userKeys'[i] = userKeys[i]
    /\ \A r \in DOMAIN users :
          \A c \in Range(getDirectReferrals(r)) :
              /\ c \in Range(getDirectReferrals(r)')
              /\ getReferrer(c) = r
              /\ getReferrer(c)' = r

\* C11: across any sequence of operations users and edges are never removed.
C11_MonotoneGrowth == [][C11_Step]_vars

\* C11 witness: a user was registered after an edge had been added, and the
\* edge is still there.
C11_Witness ==
    /\ lastOp = "addUser"
    /\ lastResult = Returned(TRUE)
    /\ Len(userKeys) >= 3
    /\ Edge(userKeys[1], userKeys[2])
    /\ getReferrer(userKeys[2]) = userKeys[1]
    /\ getReferrer(userKeys[Len(userKeys)]) = Undefined

\* C12: the node bookkeeping is mutually consistent: every referrer and
\* every member of a direct-referral set is a registered user; c is in
\* getDirectReferrals(r) exactly when getReferrer(c) = r; each user's
\* referral count equals the size of its direct-referral set.
C12_Bookkeeping ==
    /\ DOMAIN adjacencyList = DOMAIN users
    /\ DOMAIN reverseAdjacencyList = DOMAIN users
    /\ Range(userKeys) = DOMAIN users
    /\ Len(userKeys) = Cardinality(DOMAIN users)
    /\ \A u \in DOMAIN users :
          /\ users[u].id = u
          /\ getReferrer(u) # Undefined => hasUser(getReferrer(u))
          /\ \A c \in Range(getDirectReferrals(u)) : hasUser(c)
          /\ \A c \in Range(users[u].directReferrals) : hasUser(c)
          /\ Range(users[u].directReferrals) = Range(getDirectReferrals(u))
          /\ users[u].referralsMade = Cardinality(Range(getDirectReferrals(u)))
          /\ users[u].referralsMade = Len(getDirectReferrals(u))
          /\ users[u].referralsMade = Len(users[u].directReferrals)
          /\ Range(reverseAdjacencyList[u]) =
                IF getReferrer(u) = Undefined THEN {} ELSE {getReferrer(u)}
    /\ \A r \in Ids, c \in Ids :
          (c \in Range(getDirectReferrals(r))) <=> (hasUser(c) /\ getReferrer(c) = r)

\* C12 witness: a successful addReferral has just given some root user its
\* second direct referral, and both candidates name that user as referrer.
C12_Witness ==
    /\ lastOp = "addReferral"
    /\ lastResult = Returned(TRUE)
    /\ \E r \in DOMAIN users :
          /\ getReferrer(r) = Undefined
          /\ users[r].referralsMade = 2
          /\ \A c \in Range(getDirectReferrals(r)) : getReferrer(c) = r

\* C13: on an analyzer that holds no cached entry for u, calculateTotalReach(u)
\* for a registered u is the number of distinct users reachable from u over
\* one or more direct-referral edges, u itself excluded, in whatever order
\* the direct referrals are enumerated.
C13_TotalReach ==
    \A u \in DOMAIN users :
        /\ calculateTotalReach(<< >>, u).value = Cardinality(ReachPlus(u) \ {u})
        /\ u \notin DOMAIN totalReachCache =>
              /\ calculateTotalReach(totalReachCache, u).value
                    = Cardinality(ReachPlus(u) \ {u})
              /\ calculateTotalReach(totalReachCache, u).cache
                    = MapSet(totalReachCache, u, Cardinality(ReachPlus(u) \ {u}))

\* C13 witness: on the chain a -> b -> c a call has returned 2 and left a
\* cache whose only entry is a |-> 2.
C13_Witness ==
    /\ lastOp = "calculateTotalReach"
    /\ lastResult.value = 2
    /\ Edge(<<"a">>, <<"b">>)
    /\ Edge(<<"b">>, <<"c">>)
    /\ DOMAIN totalReachCache = {<<"a">>}
    /\ totalReachCache[<<"a">>] = 2

\* C14 (state): a cached user's total reach is answered from the cache.
C14_CachedValueReturned ==
    \A u \in DOMAIN totalReachCache :
        /\ calculateTotalReach(totalReachCache, u).value = totalReachCache[u]
        /\ calculateTotalReach(totalReachCache, u).cache = totalReachCache

\* C14 (step): no operation but clearCache removes or changes a cached total
\* reach, graph mutations included.
C14_Step ==
    lastOp' # "clearCache" =>
        \A u \in DOMAIN totalReachCache :
            /\ u \in DOMAIN totalReachCache'
            /\ totalReachCache'[u] = totalReachCache[u]

\* C14: once calculateTotalReach(u) has been computed and cached, later
\* graph mutations do not change what it returns until clearCache() is
\* called; it keeps returning the pre-mutation value.
C14_StaleReads == [](C14_CachedValueReturned) /\ [][C14_Step]_vars

\* C14 witness: a call has returned 1 for user a, the only cached user,
\* although two users are reachable from a in the current graph.
C14_Witness ==
    /\ lastOp = "calculateTotalReach"
    /\ lastResult.value = 1
    /\ DOMAIN totalReachCache = {<<"a">>}
    /\ totalReachCache[<<"a">>] = 1
    /\ Cardinality(ReachPlus(<<"a">>)) = 2

\* C15 (state): the three cache maps are empty at construction and right
\* after clearCache(), and every metric query then answers as on a newly
\* constructed analyzer over the current graph.
C15_ClearedIsFresh ==
    lastOp \in {"constructor", "clearCache"} =>
        /\ totalReachCache = << >>
        /\ shortestPathCache = << >>
        /\ reachSetsCache = << >>
        /\ \A u \in Ids :
              calculateTotalReach(totalReachCache, u) = calculateTotalReach(<< >>, u)
        /\ \A k \in KInputs :
              getTopReferrersByReach(totalReachCache, k) = getTopReferrersByReach(<< >>, k)
        /\ calculateUniqueReachExpansion(reachSetsCache)
              = calculateUniqueReachExpansion(<< >>)
        /\ calculateFlowCentrality(shortestPathCache) = calculateFlowCentrality(<< >>)

\* C15 (step): the query called right after clearCache() returns what a
\* newly constructed analyzer returns on the same graph.
C15_Step ==
    lastOp = "clearCache" =>
        /\ lastOp' = "calculateTotalReach" =>
              \E u \in Ids : lastResult' = Returned(calculateTotalReach(<< >>, u).value)
        /\ lastOp' = "getTopReferrersByReach" =>
              \E k \in KInputs : lastResult' = getTopReferrersByReach(<< >>, k).result
        /\ lastOp' = "calculateUniqueReachExpansion" =>
              lastResult' = Returned(calculateUniqueReachExpansion(<< >>).value)
        /\ lastOp' = "calculateFlowCentrality" =>
              lastResult' = Returned(calculateFlowCentrality(<< >>).value)

\* C15: clearCache() makes the analyzer equivalent to a newly constructed
\* one, whatever was cached before.
C15_ClearCacheRefinesConstructor == [](C15_ClearedIsFresh) /\ [][C15_Step]_vars

\* C15 witness: clearCache() has just been called on a graph with an edge.
C15_Witness ==
    /\ lastOp = "clearCache"
    /\ Edge(<<"a">>, <<"b">>)
    /\ totalReachCache = << >>
    /\ shortestPathCache = << >>
    /\ reachSetsCache = << >>

\* The registered users with a positive total reach as calculateTotalReach
\* returns it in the current analyzer state.
C16_Scored ==
    { u \in DOMAIN users : calculateTotalReach(totalReachCache, u).value > 0 }

\* C16: for every positive integer k, getTopReferrersByReach(k) returns
\* min(k, n) entries, n the number of registered users with a positive total
\* reach: in non-increasing score order, every score positive, no user
\* twice, and every scored user left out scores at most the last entry.
C16_TopK ==
    \A k \in 1..MaxK :
        LET res == getTopReferrersByReach(totalReachCache,
                                          [whole |-> k, half |-> FALSE]).result
            n == Cardinality(C16_Scored)
        IN  /\ res.status = "return"
            /\ Len(res.value) = IF k < n THEN k ELSE n
            /\ \A i \in 1..Len(res.value) :
                  /\ res.value[i].userId \in C16_Scored
                  /\ res.value[i].score
                        = calculateTotalReach(totalReachCache, res.value[i].userId).value
                  /\ res.value[i].score > 0
            /\ \A i \in 1..Len(res.value), j \in 1..Len(res.value) :
                  i < j => /\ res.value[i].score >= res.value[j].score
                           /\ res.value[i].userId # res.value[j].userId
            /\ \A u \in C16_Scored :
                  (\A i \in 1..Len(res.value) : res.value[i].userId # u) =>
                      /\ Len(res.value) > 0
                      /\ calculateTotalReach(totalReachCache, u).value
                            <= res.value[Len(res.value)].score

\* C16 witness: the call returned the single entry (a, 2) and left out
\* user b, whose reach is 1.
C16_Witness ==
    /\ lastOp = "getTopReferrersByReach"
    /\ lastResult.status = "return"
    /\ lastResult.value = <<[userId |-> <<"a">>, score |-> 2]>>
    /\ <<"b">> \in DOMAIN totalReachCache
    /\ totalReachCache[<<"b">>] = 1

\* k is not a positive integer
C17_Invalid(k) == k.half \/ k.whole <= 0

\* C17 (state): for every k that is not a positive integer the call throws
\* InvalidParameter and leaves the total-reach cache as it is.
C17_Throws ==
    \A k \in KInputs :
        C17_Invalid(k) =>
            /\ getTopReferrersByReach(totalReachCache, k).result.status = "throw"
            /\ getTopReferrersByReach(totalReachCache, k).result.error = INVALID_PARAMETER
            /\ getTopReferrersByReach(totalReachCache, k).cache = totalReachCache

\* C17 (step): a failed call changes neither the caches nor the graph.
C17_Step ==
    (lastOp' = "getTopReferrersByReach" /\ lastResult'.status = "throw") =>
        /\ lastResult'.error = INVALID_PARAMETER
        /\ UNCHANGED <<graphVars, cacheVars>>

\* C17: getTopReferrersByReach(k) fails with InvalidParameter for every k
\* that is not a positive integer, before any reach is computed.
C17_InvalidParameter == [](C17_Throws) /\ [][C17_Step]_vars

\* C17 witness: the call has thrown on a graph with an edge while nothing
\* is cached.
C17_Witness ==
    /\ lastOp = "getTopReferrersByReach"
    /\ lastResult.status = "throw"
    /\ lastResult.error = INVALID_PARAMETER
    /\ Edge(<<"a">>, <<"b">>)
    /\ totalReachCache = << >>

\* C18: calculateUniqueReachExpansion returns a list whose marginal scores
\* are non-increasing from first entry to last, on every reachable graph and
\* in every cache state, fresh or stale.
C18_NonIncreasing ==
    LET res == calculateUniqueReachExpansion(reachSetsCache).value
    IN  \A i \in 1..Len(res), j \in 1..Len(res) :
            i < j => res[i].score >= res[j].score

\* C18 witness: the call has returned two entries from reach sets that are
\* stale: some cached reach set is not the user's current one.
C18_Witness ==
    /\ lastOp = "calculateUniqueReachExpansion"
    /\ Len(lastResult.value) = 2
    /\ lastResult.value[1].score >= lastResult.value[2].score
    /\ \E u \in DOMAIN reachSetsCache : reachSetsCache[u] # ReachPlus(u)

\* The sum of the scores of a ranked list.
RECURSIVE C19_SumScores(_)
C19_SumScores(list) ==
    IF list = << >> THEN 0 ELSE Head(list).score + C19_SumScores(Tail(list))

\* C19: on a fresh cache the greedy run stops only when the best remaining
\* marginal gain is zero: every returned score is positive, no user is
\* selected twice, the scores sum to the size of the union of the selected
\* users' reach sets, and that union contains every user reachable from
\* any registered user.
C19_GreedyCoversAll ==
    LET res == calculateUniqueReachExpansion(<< >>).value
        selected == { res[i].userId : i \in 1..Len(res) }
        covered == UNION { ReachPlus(u) \ {u} : u \in selected }
    IN  /\ reachSetsCache = << >> =>
              calculateUniqueReachExpansion(reachSetsCache).value = res
        /\ selected \subseteq DOMAIN users
        /\ \A i \in 1..Len(res) : res[i].score > 0
        /\ Cardinality(selected) = Len(res)
        /\ C19_SumScores(res) = Cardinality(covered)
        /\ \A u \in DOMAIN users : (ReachPlus(u) \ {u}) \subseteq covered

\* C19 witness: on the graph a -> b, c -> d the call has filled the cache
\* with the current reach sets and returned (a, 1), (c, 1).
C19_Witness ==
    /\ lastOp = "calculateUniqueReachExpansion"
    /\ lastResult.value = <<[userId |-> <<"a">>, score |-> 1],
                            [userId |-> <<"c">>, score |-> 1]>>
    /\ DOMAIN reachSetsCache = DOMAIN users
    /\ \A u \in DOMAIN users : reachSetsCache[u] = ReachPlus(u)
    /\ Edge(<<"a">>, <<"b">>)
    /\ Edge(<<"c">>, <<"d">>)

\* The number of forward edges on a shortest path from the set S to t,
\* counted from n; -1 when t is not reachable.
RECURSIVE C20_Steps(_, _, _)
C20_Steps(S, t, n) ==
    IF t \in S THEN n
    ELSE IF S = {} \/ n > Cardinality(DOMAIN users) THEN -1
    ELSE C20_Steps(Succ(S), t, n + 1)

AnalyzerOps ==
    {"calculateTotalReach", "getTopReferrersByReach",
     "calculateUniqueReachExpansion", "calculateFlowCentrality", "clearCache"}

\* C21 (step): a call of an analyzer operation leaves users, referrers,
\* direct-referral sets and referral counts as they were.
C21_Step ==
    lastOp' \in AnalyzerOps =>
        /\ users' = users
        /\ userKeys' = userKeys
        /\ adjacencyList' = adjacencyList
        /\ reverseAdjacencyList' = reverseAdjacencyList

\* C21: no NetworkAnalyzer operation changes the graph, a failing
\* getTopReferrersByReach included.
C21_AnalyzerFrame == [][C21_Step]_vars

\* C21 witness: calculateFlowCentrality has filled its cache on a graph
\* with the edge a -> b, and user a still counts one referral.
C21_Witness ==
    /\ lastOp = "calculateFlowCentrality"
    /\ DOMAIN shortestPathCache = DOMAIN users
    /\ Edge(<<"a">>, <<"b">>)
    /\ users[<<"a">>].referralsMade = 1
    /\ getReferrer(<<"b">>) = <<"a">>

\* C22: queries with an unregistered id return neutral values:
\* calculateTotalReach 0, getDirectReferrals an empty collection, getReferrer
\* absent and hasUser false; getReferrer also returns absent for a
\* registered user without referrer.
C22_NeutralValues ==
    /\ \A u \in Ids \ DOMAIN users :
          /\ calculateTotalReach(totalReachCache, u).value = 0
          /\ getDirectReferrals(u) = << >>
          /\ getReferrer(u) = Undefined
          /\ ~hasUser(u)
    /\ \A u \in DOMAIN users :
          (\A r \in DOMAIN users : ~Edge(r, u)) => getReferrer(u) = Undefined

\* C22 witness: calculateTotalReach has returned 0 and cached nothing,
\* although a registered user has a referral: the id was not registered.
C22_Witness ==
    /\ lastOp = "calculateTotalReach"
    /\ lastResult.value = 0
    /\ totalReachCache = << >>
    /\ Edge(<<"a">>, <<"b">>)
    /\ Len(userKeys) = 2

\* C23 (state): on every reachable graph and in every cache state the
\* queries evaluate to a value, and the greedy loop of
\* calculateUniqueReachExpansion runs at most as many rounds as there are
\* registered users.
C23_Values ==
    /\ \A r \in Ids, c \in Ids : validateAcyclicity(r, c) \in BOOLEAN
    /\ \A u \in Ids : calculateTotalReach(totalReachCache, u).value \in Nat
    /\ LET res == calculateUniqueReachExpansion(reachSetsCache).value
       IN  \A i \in 1..Len(res) : res[i].userId \in DOMAIN users /\ res[i].score \in Nat
    /\ LET res == calculateFlowCentrality(shortestPathCache).value
       IN  \A i \in 1..Len(res) : res[i].userId \in DOMAIN users /\ res[i].score \in Nat
    /\ GreedyRounds(getAllUsers, precomputeReachSets(reachSetsCache), {}, 0)
          <= Len(userKeys)

\* C23 (step): the three metric queries return, they never throw.
C23_Step ==
    lastOp' \in {"calculateTotalReach", "calculateUniqueReachExpansion",
                 "calculateFlowCentrality"}
        => lastResult'.status = "return"

\* C23: validateAcyclicity, calculateTotalReach,
\* calculateUniqueReachExpansion and calculateFlowCentrality terminate and
\* return a value without raising, in every cache state; the greedy loop
\* ends after at most as many rounds as there are registered users.
C23_Terminates == [](C23_Values) /\ [][C23_Step]_vars

\* C23 witness: calculateFlowCentrality has returned from a shortest-path
\* cache that has no entry for user b.
C23_Witness ==
    /\ lastOp = "calculateFlowCentrality"
    /\ lastResult.status = "return"
    /\ hasUser(<<"b">>)
    /\ DOMAIN shortestPathCache = {<<"a">>}

\* C24 (state): a metric query issued again right after itself returns an
\* equal result, and so does getTopReferrersByReach issued after a
\* calculateTotalReach.
C24_RepeatedQuery ==
    /\ \A u \in RetryIds :
          calculateTotalReach(calculateTotalReach(totalReachCache, u).cache, u).value
             = calculateTotalReach(totalReachCache, u).value
    /\ \A k \in KInputs :
          getTopReferrersByReach(getTopReferrersByReach(totalReachCache, k).cache, k).result
             = getTopReferrersByReach(totalReachCache, k).result
    /\ \A v \in RetryIds :
          getTopReferrersByReach(calculateTotalReach(totalReachCache, v).cache,
                                 [whole |-> MaxK, half |-> FALSE]).result
             = getTopReferrersByReach(totalReachCache,
                                      [whole |-> MaxK, half |-> FALSE]).result
    /\ calculateUniqueReachExpansion(
          calculateUniqueReachExpansion(reachSetsCache).cache).value
             = calculateUniqueReachExpansion(reachSetsCache).value
    /\ calculateFlowCentrality(calculateFlowCentrality(shortestPathCache).cache).value
             = calculateFlowCentrality(shortestPathCache).value

\* C24 (step): a call that throws leaves the graph and the caches as they
\* were, and a query changes at most its own cache.
C24_Step ==
    /\ lastResult'.status = "throw" => UNCHANGED <<graphVars, cacheVars>>
    /\ lastOp' \in {"calculateTotalReach", "getTopReferrersByReach"} =>
          UNCHANGED <<graphVars, shortestPathCache, reachSetsCache>>
    /\ lastOp' = "calculateUniqueReachExpansion" =>
          UNCHANGED <<graphVars, totalReachCache, shortestPathCache>>
    /\ lastOp' = "calculateFlowCentrality" =>
          UNCHANGED <<graphVars, totalReachCache, reachSetsCache>>

\* C24: operations are deterministic functions of the current state: a
\* failed addUser, addReferral or getTopReferrersByReach changes nothing of
\* the state its outcome depends on, so re-issuing it fails the same way,
\* and a repeated metric query returns an equal result.
C24_Deterministic == [](C24_RepeatedQuery) /\ [][C24_Step]_vars

\* C24 witness: addReferral has failed with CycleDetected while the
\* analyzer holds a cached reach.
C24_Witness ==
    /\ lastOp = "addReferral"
    /\ lastResult.status = "throw"
    /\ lastResult.error = CYCLE_DETECTED
    /\ DOMAIN totalReachCache # {}

\* C29 (state): whatever valid k is passed, the cache the call leaves holds
\* every registered user, keeps the entries it had and takes the others
\* from the current graph, and each returned score is what
\* calculateTotalReach returns on that cache.
C29_CacheAfterRanking ==
    \A k \in KInputs :
        LET r == getTopReferrersByReach(totalReachCache, k)
        IN  r.result.status = "return" =>
              /\ Range(userKeys) \subseteq DOMAIN r.cache
              /\ \A u \in DOMAIN totalReachCache : r.cache[u] = totalReachCache[u]
              /\ \A u \in Range(userKeys) \ DOMAIN totalReachCache :
                    r.cache[u] = Cardinality(ReachPlus(u))
              /\ \A i \in 1..Len(r.result.value) :
                    r.result.value[i].score
                       = calculateTotalReach(r.cache, r.result.value[i].userId).value

\* C29: a successful getTopReferrersByReach(k) leaves a total-reach cache
\* entry for every registered user regardless of k, and each returned score
\* is the value calculateTotalReach returns in that analyzer state, stale
\* where the user was cached before a mutation and current otherwise.
C29_RankingFillsCache ==
    /\ C29_CacheAfterRanking
    /\ (lastOp = "getTopReferrersByReach" /\ lastResult.status = "return") =>
          /\ Range(userKeys) \subseteq DOMAIN totalReachCache
          /\ \A i \in 1..Len(lastResult.value) :
                lastResult.value[i].score
                   = calculateTotalReach(totalReachCache, lastResult.value[i].userId).value

\* C29 witness: a ranking of one entry (k cut the list) that holds a stale
\* score, returned while a user with a positive reach computed from the
\* current graph is cached next to it.
C29_Witness ==
    /\ lastOp = "getTopReferrersByReach"
    /\ lastResult.status = "return"
    /\ Len(lastResult.value) = 1
    /\ lastResult.value[1].score
          # Cardinality(ReachPlus(lastResult.value[1].userId))
    /\ \E u \in Range(userKeys) :
          /\ u # lastResult.value[1].userId
          /\ totalReachCache[u] > 0
          /\ totalReachCache[u] = Cardinality(ReachPlus(u))

\* The users that have an entry in the map `cache`, in registration order.
C28_Cached(cache) == SelectSeq(userKeys, LAMBDA u : u \in DOMAIN cache)

\* The greedy ranking computed from the reach-set cache alone.
C28_ExpansionOf(cache) == GreedyLoop(C28_Cached(cache), cache, {}, << >>)

\* The centrality ranking computed from the shortest-path cache alone.
C28_CentralityOf(cache) ==
    LET U == DOMAIN cache
        score == [v \in U |->
                    Cardinality({ p \in U \X U :
                        /\ p[1] # p[2]
                        /\ v # p[1]
                        /\ v # p[2]
                        /\ cache[p[1]][p[2]] # Infinity
                        /\ cache[p[1]][v] + cache[v][p[2]] = cache[p[1]][p[2]] })]
    IN  SortByScore(PositiveScores(C28_Cached(cache), score))

\* C28 (state): while a cache holds entries, the list a call returns is
\* determined by that cache and lists only users that have an entry in it.
C28_ResultOfCache ==
    /\ reachSetsCache # << >> =>
          /\ calculateUniqueReachExpansion(reachSetsCache).value
                = C28_ExpansionOf(reachSetsCache)
          /\ lastOp = "calculateUniqueReachExpansion" =>
                /\ lastResult.value = C28_ExpansionOf(reachSetsCache)
                /\ \A i \in 1..Len(lastResult.value) :
                      lastResult.value[i].userId \in DOMAIN reachSetsCache
    /\ shortestPathCache # << >> =>
          /\ calculateFlowCentrality(shortestPathCache).value
                = C28_CentralityOf(shortestPathCache)
          /\ lastOp = "calculateFlowCentrality" =>
                /\ lastResult.value = C28_CentralityOf(shortestPathCache)
                /\ \A i \in 1..Len(lastResult.value) :
                      lastResult.value[i].userId \in DOMAIN shortestPathCache

\* C28 (step): a cache that holds entries is changed by clearCache only,
\* and the users it holds keep their registration order.
C28_Step ==
    lastOp' # "clearCache" =>
        /\ reachSetsCache # << >> =>
              /\ reachSetsCache' = reachSetsCache
              /\ C28_Cached(reachSetsCache)' = C28_Cached(reachSetsCache)
        /\ shortestPathCache # << >> =>
              /\ shortestPathCache' = shortestPathCache
              /\ C28_Cached(shortestPathCache)' = C28_Cached(shortestPathCache)

\* C28: once calculateUniqueReachExpansion (calculateFlowCentrality) has run
\* on a graph with at least one user, every later call without a clearCache
\* in between returns the same list as that first call, whatever users and
\* referrals were added in between, and users registered after the cache
\* was filled never appear in it.
C28_FrozenRanking == [](C28_ResultOfCache) /\ [][C28_Step]_vars

\* C28 witness: calculateUniqueReachExpansion has returned a non-empty list
\* while both caches lack a registered user and the reach-set cache lacks a
\* referral of the current graph.
C28_Witness ==
    /\ lastOp = "calculateUniqueReachExpansion"
    /\ lastResult.value # << >>
    /\ reachSetsCache # << >>
    /\ shortestPathCache # << >>
    /\ DOMAIN reachSetsCache # DOMAIN users
    /\ DOMAIN shortestPathCache # DOMAIN users
    /\ \E u \in DOMAIN reachSetsCache : reachSetsCache[u] # ReachPlus(u)

\* The position of a registered user in the order of the addUser calls.
C30_Registered(userId) == CHOOSE i \in 1..Len(userKeys) : userKeys[i] = userId

\* C30 (getTopReferrersByReach): entries with equal scores are listed in
\* registration order.
C30_TopTies ==
    \A k \in KInputs :
        LET r == getTopReferrersByReach(totalReachCache, k).result
        IN  r.status = "return" =>
              \A i \in 1..Len(r.value), j \in 1..Len(r.value) :
                  (i < j /\ r.value[i].score = r.value[j].score) =>
                      C30_Registered(r.value[i].userId)
                         < C30_Registered(r.value[j].userId)

\* C30 (calculateUniqueReachExpansion): in each round no user still
\* unselected has a larger marginal gain than the selected one, and none
\* with the same gain was registered earlier.
C30_GreedyTies ==
    LET call == calculateUniqueReachExpansion(reachSetsCache)
        res == call.value
        sets == call.cache
        Covered(i) == UNION { sets[res[j].userId] : j \in 1..(i - 1) }
        Gain(u, i) == IF u \in DOMAIN sets
                        THEN Cardinality(sets[u] \ Covered(i)) ELSE 0
        Remaining(i) == Range(userKeys) \ { res[j].userId : j \in 1..(i - 1) }
    IN  \A i \in 1..Len(res) :
            /\ res[i].userId \in Remaining(i)
            /\ res[i].score = Gain(res[i].userId, i)
            /\ \A u \in Remaining(i) :
                  \/ Gain(u, i) < res[i].score
                  \/ /\ Gain(u, i) = res[i].score
                     /\ C30_Registered(res[i].userId) <= C30_Registered(u)

\* C30: ties are broken by registration order, among equal reaches in
\* getTopReferrersByReach and among maximal marginal gains in each round of
\* calculateUniqueReachExpansion.
C30_TiesByRegistration == C30_TopTies /\ C30_GreedyTies

\* C30 witness: a and c, registered in this order, each refer one user;
\* getTopReferrersByReach has returned a before c with equal scores, and
\* calculateUniqueReachExpansion selects a before c with equal gains.
C30_Witness ==
    /\ lastOp = "getTopReferrersByReach"
    /\ lastResult.status = "return"
    /\ lastResult.value = <<[userId |-> <<"a">>, score |-> 1],
                            [userId |-> <<"c">>, score |-> 1]>>
    /\ reachSetsCache # << >>
    /\ calculateUniqueReachExpansion(reachSetsCache).value
          = <<[userId |-> <<"a">>, score |-> 1],
              [userId |-> <<"c">>, score |-> 1]>>

\* The errors addReferral throws.
C25_Failures ==
    {INVALID_USER_ID, SELF_REFERRAL, USER_NOT_FOUND, DUPLICATE_REFERRER, CYCLE_DETECTED}

C26_WithinTotalCapacity ==
    (lastOp = "simulate" /\ lastResult.status = "return") =>
        \A i \in 1..Len(lastResult.value) :
            lastResult.value[i] <= Whole(INITIAL_REFERRERS * REFERRAL_CAPACITY)

C33_UnknownNotCached ==
    /\ DOMAIN totalReachCache \subseteq DOMAIN users
    /\ \A u \in Ids \ DOMAIN users :
          /\ calculateTotalReach(totalReachCache, u).value = 0
          /\ calculateTotalReach(totalReachCache, u).cache = totalReachCache
    /\ \A u \in DOMAIN users \ DOMAIN totalReachCache :
          calculateTotalReach(totalReachCache, u).value = Cardinality(ReachPlus(u))
    /\ lastOp = "calculateTotalReach" /\ totalReachCache = << >> =>
          lastResult = Returned(0)

\* C33 witness: a call has returned 0 and left the cache empty although a
\* registered user has a referral, so the id asked for is not registered,
\* and a valid id is still free to register.
C33_Witness ==
    /\ lastOp = "calculateTotalReach"
    /\ lastResult = Returned(0)
    /\ totalReachCache = << >>
    /\ Edge(<<"a">>, <<"b">>)
    /\ ~hasUser(<<"c">>)

\* C34 (state): a cached total reach never exceeds the user's reach in the
\* current graph.
C34_NeverOverReports ==
    \A u \in DOMAIN totalReachCache :
        totalReachCache[u] <= Cardinality(ReachPlus(u))

\* C34 (step): an entry that enters the cache holds the user's reach in the
\* graph it was computed from, and an entry that equals the user's reach
\* still equals it after every step but a successful addReferral or a
\* clearCache, which removes it.
C34_Step ==
    /\ \A u \in DOMAIN totalReachCache' \ DOMAIN totalReachCache :
          /\ UNCHANGED graphVars
          /\ totalReachCache'[u] = Cardinality(ReachPlus(u))
    /\ ~(lastOp' = "addReferral" /\ lastResult' = Returned(TRUE)) =>
          \A u \in DOMAIN totalReachCache \cap DOMAIN totalReachCache' :
              totalReachCache[u] = Cardinality(ReachPlus(u)) =>
                  totalReachCache'[u] = Cardinality(ReachPlus(u))'

\* C34: in every reachable state each cached total reach is at most the
\* user's reach in the current graph (the graph only grows), and it equals
\* that reach as long as no addReferral has succeeded since the entry was
\* computed.
C34_CachedReachBounded == [](C34_NeverOverReports) /\ [][C34_Step]_vars

\* C34 witness: user a is cached with the reach 1 it had before b referred
\* c, below its current reach 2, next to user b whose entry was computed
\* after that referral and equals b's reach.
C34_Witness ==
    /\ DOMAIN totalReachCache = {<<"a">>, <<"b">>}
    /\ totalReachCache[<<"a">>] = 1
    /\ Cardinality(ReachPlus(<<"a">>)) = 2
    /\ totalReachCache[<<"b">>] = 1
    /\ Cardinality(ReachPlus(<<"b">>)) = 1

\* The sum over the direct referrals c in `referrals` of 1 + the total
\* reach of c, each computed on an empty cache.
RECURSIVE C38_SumOverReferrals(_)
C38_SumOverReferrals(referrals) ==
    IF referrals = << >> THEN 0
    ELSE 1 + calculateTotalReach(<< >>, Head(referrals)).value
           + C38_SumOverReferrals(Tail(referrals))

\* C38: on an empty cache over any reachable graph, the total reach of
\* every registered user p is the sum over its direct referrals c of
\* 1 + the total reach of c, and is strictly greater than the total reach of
\* each direct referral.
C38_TreeRecurrence ==
    \A p \in DOMAIN users :
        /\ calculateTotalReach(<< >>, p).value
              = C38_SumOverReferrals(getDirectReferrals(p))
        /\ \A c \in Range(getDirectReferrals(p)) :
              calculateTotalReach(<< >>, p).value
                 > calculateTotalReach(<< >>, c).value

\* C38 witness: on the chain a -> b -> c the first query of a cleared
\* analyzer has returned 2 for a, one more than the reach 1 of its only
\* direct referral b.
C38_Witness ==
    /\ lastOp = "calculateTotalReach"
    /\ lastResult = Returned(2)
    /\ totalReachCache = MapSet(<< >>, <<"a">>, 2)
    /\ getDirectReferrals(<<"a">>) = <<<<"b">>>>
    /\ getDirectReferrals(<<"b">>) = <<<<"c">>>>
    /\ calculateTotalReach(<< >>, <<"b">>).value = 1

\* The users without a referrer that have at least one direct referral.
C36_ReferringRoots ==
    { u \in DOMAIN users :
        getReferrer(u) = Undefined /\ getDirectReferrals(u) # << >> }

\* C36: on an empty cache calculateUniqueReachExpansion returns exactly the
\* users that have no referrer and at least one direct referral, each once
\* and with its total reach as score, in non-increasing order of reach, and
\* the scores sum to the number of users that have a referrer.
C36_ForestExpansion ==
    LET res == calculateUniqueReachExpansion(<< >>).value
    IN  /\ { res[i].userId : i \in 1..Len(res) } = C36_ReferringRoots
        /\ Len(res) = Cardinality(C36_ReferringRoots)
        /\ \A i \in 1..Len(res) :
              res[i].score = calculateTotalReach(<< >>, res[i].userId).value
        /\ \A i \in 1..Len(res), j \in 1..Len(res) :
              i < j => calculateTotalReach(<< >>, res[i].userId).value
                          >= calculateTotalReach(<< >>, res[j].userId).value
        /\ C19_SumScores(res)
              = Cardinality({ u \in DOMAIN users : getReferrer(u) # Undefined })

\* C36 witness: on the graph a -> b -> c with a fourth user d that refers
\* nobody, a call on an empty cache has returned the single entry (a, 2):
\* neither b, which has a referral and a referrer, nor the root d.
C36_Witness ==
    /\ lastOp = "calculateUniqueReachExpansion"
    /\ lastResult.value = <<[userId |-> <<"a">>, score |-> 2]>>
    /\ getDirectReferrals(<<"a">>) = <<<<"b">>>>
    /\ getDirectReferrals(<<"b">>) = <<<<"c">>>>
    /\ hasUser(<<"d">>)
    /\ getReferrer(<<"d">>) = Undefined
    /\ getDirectReferrals(<<"d">>) = << >>
    /\ \A u \in DOMAIN users : reachSetsCache[u] = ReachPlus(u)

\* The number of referrer links from user v up to the root of its tree:
\* the number of proper ancestors of v.
RECURSIVE C37_Depth(_)
C37_Depth(v) ==
    IF getReferrer(v) = Undefined THEN 0 ELSE 1 + C37_Depth(getReferrer(v))

C32_EmptyNotRetained ==
    /\ userKeys = << >> =>
          /\ reachSetsCache = << >>
          /\ shortestPathCache = << >>
          /\ calculateUniqueReachExpansion(reachSetsCache)
                = [value |-> << >>, cache |-> << >>]
          /\ calculateFlowCentrality(shortestPathCache)
                = [value |-> << >>, cache |-> << >>]
    /\ reachSetsCache = << >> =>
          LET r == calculateUniqueReachExpansion(reachSetsCache)
          IN  /\ DOMAIN r.cache = DOMAIN users
              /\ \A u \in DOMAIN users : r.cache[u] = ReachPlus(u)
              /\ (r.value = << >>) <=> (\A u \in DOMAIN users : ReachPlus(u) = {})
    /\ shortestPathCache = << >> =>
          LET r == calculateFlowCentrality(shortestPathCache)
          IN  /\ DOMAIN r.cache = DOMAIN users
              /\ \A s \in DOMAIN users, t \in DOMAIN users :
                    r.cache[s][t] = IF C20_Steps({s}, t, 0) < 0 THEN Infinity
                                    ELSE C20_Steps({s}, t, 0)
              /\ (r.value = << >>) <=>
                    (\A u \in DOMAIN users : C37_Depth(u) * Cardinality(ReachPlus(u)) = 0)

\* C32 (step): a call of either metric on a graph without users returns the
\* empty list and leaves every cache empty, and addUser and addReferral
\* leave the caches as they are.
C32_Step ==
    /\ (userKeys = << >>
          /\ lastOp' \in {"calculateUniqueReachExpansion", "calculateFlowCentrality"}) =>
          /\ lastResult' = Returned(<< >>)
          /\ reachSetsCache' = << >>
          /\ shortestPathCache' = << >>
    /\ lastOp' \in {"addUser", "addReferral"} => UNCHANGED cacheVars

\* C32: a call of calculateUniqueReachExpansion or calculateFlowCentrality
\* made while the graph has no users retains nothing in the cache (the
\* cache-hit test is "the map is non-empty"): after users and referrals are
\* added, the next call computes from the current graph without clearCache.
C32_EmptyGraphNotCached == [](C32_EmptyNotRetained) /\ [][C32_Step]_vars

\* C32 witness: calculateFlowCentrality has been called on the graph without
\* users, has returned the empty list, and both caches are empty.
C32_Witness ==
    /\ lastOp = "calculateFlowCentrality"
    /\ lastResult = Returned(<< >>)
    /\ userKeys = << >>
    /\ reachSetsCache = << >>
    /\ shortestPathCache = << >>

\* C35 (state): the graph holds no cycle, and the predicate is false for
\* the reverse of every edge.
C35_NoCycle ==
    /\ \A n \in DOMAIN users : n \notin ReachPlus(n)
    /\ \A r \in DOMAIN users, c \in DOMAIN users :
          Edge(r, c) => ~validateAcyclicity(c, r)

\* C35 (step): an operation that leaves the graph as it is leaves every
\* answer as it is; after an operation that changes the graph, an answer
\* false of validateAcyclicity(r, c) for registered r and c is still false,
\* and an edge r -> c has entered the graph only from a state where
\* validateAcyclicity(r, c) was true.
C35_Step ==
    \/ UNCHANGED graphVars
    \/ \A r \in DOMAIN users, c \in DOMAIN users :
          /\ ~validateAcyclicity(r, c) => ~(validateAcyclicity(r, c))'
          /\ (~Edge(r, c) /\ Edge(r, c)') =>
                /\ validateAcyclicity(r, c)
                /\ lastOp' = "addReferral"
                /\ lastResult' = Returned(TRUE)

\* C35: a negative answer of validateAcyclicity is stable: once false for
\* registered r and c it is false after any further sequence of operations,
\* so only a true answer can change; addReferral runs the check in the
\* state it mutates, so an answer true given earlier never lets a cycle in.
C35_NegativeStable == [](C35_NoCycle) /\ [][C35_Step]_vars

\* C35 witness: on the chain a -> b -> c the predicate has just answered
\* false; validateAcyclicity(c, a), true before the two referrals, is false,
\* and so is the answer for the reverse of each edge.
C35_Witness ==
    /\ lastOp = "validateAcyclicity"
    /\ lastResult = Returned(FALSE)
    /\ getDirectReferrals(<<"a">>) = <<<<"b">>>>
    /\ getDirectReferrals(<<"b">>) = <<<<"c">>>>
    /\ ~validateAcyclicity(<<"c">>, <<"a">>)
    /\ ~validateAcyclicity(<<"b">>, <<"a">>)
    /\ validateAcyclicity(<<"a">>, <<"c">>)

\* The number of referrer links from user t up to user u; -1 when u is not
\* reached by following the referrers of t.
RECURSIVE C39_LinksUp(_, _)
C39_LinksUp(t, u) ==
    IF t = u THEN 0
    ELSE IF getReferrer(t) = Undefined THEN -1
    ELSE LET up == C39_LinksUp(getReferrer(t), u)
         IN  IF up < 0 THEN -1 ELSE up + 1

\* C39: on an analyzer whose caches were filled without a mutation in
\* between, the three caches describe the same graph: for every registered
\* user u, calculateTotalReach(u) is the size of u's reach set and the
\* number of users t # u at a finite shortest distance from u; each finite
\* distance is the number of referrer links from t up to u, and the
\* distance from u to itself is 0.
C39_CachesAgree ==
    LET sets == precomputeReachSets(reachSetsCache)
        paths == computeAllPairsShortestPaths(shortestPathCache)
    IN  \A u \in DOMAIN users :
            /\ calculateTotalReach(totalReachCache, u).value = Cardinality(sets[u])
            /\ DOMAIN paths[u] = DOMAIN users
            /\ calculateTotalReach(totalReachCache, u).value
                  = Cardinality({ t \in DOMAIN users \ {u} : paths[u][t] < Infinity })
            /\ sets[u] = { t \in DOMAIN users \ {u} : paths[u][t] < Infinity }
            /\ paths[u][u] = 0
            /\ \A t \in DOMAIN users :
                  IF paths[u][t] < Infinity
                    THEN paths[u][t] = C39_LinksUp(t, u)
                    ELSE C39_LinksUp(t, u) = -1

\* C39 witness: on the chain a -> b -> c the three caches are filled: the
\* reach of a is 2, its reach set is {b, c}, c is at distance 2 from a and a
\* at no finite distance from c.
C39_Witness ==
    /\ getDirectReferrals(<<"a">>) = <<<<"b">>>>
    /\ getDirectReferrals(<<"b">>) = <<<<"c">>>>
    /\ DOMAIN totalReachCache = DOMAIN users
    /\ totalReachCache[<<"a">>] = 2
    /\ DOMAIN reachSetsCache = DOMAIN users
    /\ reachSetsCache[<<"a">>] = {<<"b">>, <<"c">>}
    /\ DOMAIN shortestPathCache = DOMAIN users
    /\ shortestPathCache[<<"a">>][<<"c">>] = 2
    /\ shortestPathCache[<<"c">>][<<"a">>] = Infinity

\* The operations of the second analyzer.
C31_OtherOps ==
    {"other.constructor", "other.calculateTotalReach", "other.clearCache"}

\* C31 (state): each analyzer answers from the graph and its own cache
\* only: an analyzer that has just been constructed or cleared answers
\* with the current reach, whatever the other one holds, and an analyzer
\* that holds an entry answers with it, current or not.
C31_OwnCacheOnly ==
    /\ lastOp \in {"other.constructor", "other.clearCache"} =>
          /\ otherCache = EmptyCache
          /\ \A u \in DOMAIN users :
                calculateTotalReach(otherCache.totalReachCache, u).value
                   = Cardinality(ReachPlus(u))
    /\ \A u \in DOMAIN totalReachCache :
          calculateTotalReach(totalReachCache, u).value = totalReachCache[u]
    /\ \A u \in DOMAIN otherCache.totalReachCache :
          calculateTotalReach(otherCache.totalReachCache, u).value
             = otherCache.totalReachCache[u]
    /\ lastOp = "other.calculateTotalReach" =>
          \E u \in DOMAIN otherCache.totalReachCache :
              lastResult = Returned(otherCache.totalReachCache[u])

\* C31 (step): a query, a clearCache or the construction of one analyzer
\* leaves the graph and the cache of the other analyzer as they are, and
\* so every answer of the other analyzer.
C31_Step ==
    /\ lastOp' \in AnalyzerOps => UNCHANGED <<graphVars, otherCache>>
    /\ lastOp' \in C31_OtherOps => UNCHANGED <<graphVars, cacheVars>>
    /\ lastOp' \in {"addUser", "addReferral"} => UNCHANGED <<cacheVars, otherCache>>

\* C31: caches are per analyzer: a query or clearCache on one of two
\* analyzers over the same graph never changes what the other returns, and
\* an analyzer constructed after a mutation returns current values while
\* an older analyzer with warm caches keeps returning its stale ones.
C31_PerAnalyzerCaches == [](C31_OwnCacheOnly) /\ [][C31_Step]_vars

\* C31 witness: after a -> b was added, the second analyzer has returned
\* the reach 1 of a and holds it, while the first analyzer still holds 0
\* for a and answers with it.
C31_Witness ==
    /\ lastOp = "other.calculateTotalReach"
    /\ lastResult = Returned(1)
    /\ Edge(<<"a">>, <<"b">>)
    /\ otherCache.totalReachCache = MapSet(<< >>, <<"a">>, 1)
    /\ <<"a">> \in DOMAIN totalReachCache
    /\ totalReachCache[<<"a">>] = 0
    /\ calculateTotalReach(totalReachCache, <<"a">>).value = 0

=============================================================================
